---- MODULE Spec2Model ----
(***************************************************************************)
(* Lobstertank: the template resolution engine (package template).         *)
(*                                                                         *)
(* Resolve(base, layers...) is modelled step by step over a heap of Go     *)
(* maps and slice backing arrays, so that sharing between the inputs and   *)
(* the result is visible.  Validate is modelled rule by rule.              *)
(***************************************************************************)
EXTENDS Integers, Sequences, FiniteSets, TLC

VARIABLES
    base,      \* *Template passed as base (NIL for a nil pointer)
    layers,    \* the variadic layers: a sequence of *Template (NIL allowed)
    maps,      \* heap of Go maps: maps[r] is the content of the map with reference r
    arrays,    \* heap of slice backing arrays: arrays[a] has cap(a) cells
    result,    \* Resolve's local "result" (NIL before deepCopy)
    i,         \* index of the next layer of the range loop
    pc,        \* position inside Resolve
    step,      \* locals of the last merge step (strategies, lists before the merge)
    heap0,     \* the heap (and the output directory) when the call began
    vt,        \* the template handed to Validate
    errs,      \* Validate's local errs
    verr,      \* Validate's return value
    renderer,  \* the Renderer NewRenderer returned (NIL for none)
    rerr,      \* the error NewRenderer returned (NIL for none)
    required,  \* the template fields the renderers need to be set
    bundles,   \* what each Render call returned: [by, bundle, err]
    wb,        \* WriteBundle: the files it has written (path -> mode passed) and its error
    disk,      \* the files below the output directory: path -> [content, mode]
    exit,      \* the exit code of the command (-1 while it runs)
    stages,    \* the stages the command has invoked so far, in order
    flags,     \* the command and what its flags name: documents or unreadable files
    plan,      \* the *PlanSummary of Plan (NIL for none)
    hashes,    \* the digests Hash has returned so far, with the template hashed
    calls,     \* Resolve calls running side by side: the locals of each
    fold,      \* Resolve of all layers, of a prefix, of the rest: the results
    store,     \* SQLiteStore.gateways: id -> the stored Gateway
    now,       \* the wall clock, in seconds
    reqs,      \* the registry requests in flight: the set of their locals
    fan        \* fanOutToGateways: its locals and its goroutines (NIL for no call)

vars == <<base, layers, maps, arrays, result, i, pc, step, heap0, vt, errs, verr,
          renderer, rerr, required, bundles, wb, disk, exit, stages, flags, plan, hashes, calls,
          fold, store, now, reqs, fan>>

resolveVars == <<base, layers, maps, arrays, result, i, pc, step, heap0>>
validateVars == <<vt, errs, verr>>
commandVars == <<renderer, rerr, required, bundles, wb, disk, exit, stages, flags, plan, hashes, calls>>
serviceVars == <<store, now, reqs, fan>>
restVars == <<fold, store, now, reqs, fan>>

-----------------------------------------------------------------------------
(* Bounds of the model *)

MaxLayers == 2      \* layers passed to one Resolve call
MaxLen == 2         \* entries of a port list / secret-entry list of one document
MaxDefects == 2     \* rule violations injected into one template for Validate
MaxHashes == 2      \* Hash calls made on the templates in memory
MaxGateways == 1    \* gateways registered at one time
MaxTime == 2        \* seconds the clock runs
MaxReqs == 2        \* registry requests in flight at one time
MaxFan == 2         \* gateways one prompt is fanned out to
MaxRenders == 2     \* Render calls made on one template

-----------------------------------------------------------------------------
(* Constants of package template *)

KindEncodingTemplate == "EncodingTemplate"
KindRoleOverlay == "RoleOverlay"
KindEnvironmentOverlay == "EnvironmentOverlay"
KindInstanceVars == "InstanceVars"
APIVersion == "lobstertank.io/v1alpha1"

RoleGateway == "gateway"
RoleControlPlane == "control-plane"
RoleWorker == "worker"
RoleObservability == "observability"
RoleDBAdjunct == "db-adjunct"

TargetPodman == "podman"
TargetKubernetes == "kubernetes"
TargetOpenShift == "openshift"
TargetDroplet == "droplet"
TargetSandbox == "sandbox"

MergeStrategyReplace == "replace"
MergeStrategyAppend == "append"
MergeStrategyUnion == "union"

-----------------------------------------------------------------------------
(* The document schema.  A Go map field holds a reference into maps (0 is   *)
(* the nil map); a []PortSpec / []SecretEntry field holds a slice header    *)
(* [arr, len] into arrays (arr = 0 is the nil slice); []string fields are   *)
(* never written element-wise and are kept as values; a pointer field is a  *)
(* record with a "set" flag (FALSE is the nil pointer).                     *)

NIL == [nil |-> TRUE]

NilSlice == [arr |-> 0, len |-> 0]

PortSpec(name, port, hostPort, protocol) ==
    [Name |-> name, Port |-> port, HostPort |-> hostPort, Protocol |-> protocol]

SecretEntry(name, type, ref) == [Name |-> name, Type |-> type, Ref |-> ref]

ZeroPort == PortSpec("", 0, 0, "")
ZeroEntry == SecretEntry("", "", "")

NoReverseProxy == [set |-> FALSE, Enabled |-> FALSE, Provider |-> "", TLS |-> FALSE]
NoTailscale ==
    [set |-> FALSE, Enabled |-> FALSE, Provider |-> "", Tags |-> <<>>, ACLMapping |-> 0]
NoMultiGateway == [set |-> FALSE, Enabled |-> FALSE, Mode |-> "", Priority |-> 0]

ZeroSpec ==
    [Identity |-> [InstanceName |-> "", Role |-> "", Region |-> "",
                   Labels |-> 0, TailnetTags |-> <<>>],
     Runtime |-> [DeploymentTarget |-> "",
                  Resources |-> [CPU |-> "", Memory |-> "", StoragePaths |-> <<>>],
                  Image |-> [Repository |-> "", Tag |-> "", PullPolicy |-> ""]],
     Network |-> [Ports |-> NilSlice, BindAddress |-> "",
                  ReverseProxy |-> NoReverseProxy,
                  Tailscale |-> NoTailscale,
                  MultiGateway |-> NoMultiGateway,
                  PortsMergeStrategy |-> ""],
     Secrets |-> [Provider |-> "", Entries |-> NilSlice, EntriesMergeStrategy |-> ""],
     Observability |->
        [Logging |-> [Destinations |-> <<>>, RedactionRules |-> <<>>,
                      Level |-> "", Format |-> ""],
         Metrics |-> [Enabled |-> FALSE, Endpoint |-> "", Format |-> ""],
         Traces |-> [Enabled |-> FALSE, Endpoint |-> "", Format |-> ""],
         HealthCheck |-> [Path |-> "", Interval |-> "", Timeout |-> "",
                          ReadinessGate |-> FALSE]],
     Policy |-> [UpdateChannel |-> "", PinnedVersion |-> "",
                 ApprovedPlugins |-> <<>>, ApprovedProviders |-> <<>>,
                 FilesystemAllowlist |-> <<>>, CommandAllowlist |-> <<>>]]

ZeroTemplate ==
    [APIVersion |-> "", Kind |-> "",
     Metadata |-> [Name |-> "", Version |-> "", Description |-> "", Labels |-> 0],
     Spec |-> ZeroSpec]

-----------------------------------------------------------------------------
(* Heap primitives *)

EmptyMap == [k \in {} |-> ""]

\* len(m) of a Go map reference (0 for the nil map)
MapLen(ms, r) == IF r = 0 THEN 0 ELSE Cardinality(DOMAIN ms[r])

\* s[0:len] of a slice header
Elems(as, s) == IF s.arr = 0 THEN <<>> ELSE SubSeq(as[s.arr], 1, s.len)

\* cap(s)
Cap(as, s) == IF s.arr = 0 THEN 0 ELSE Len(as[s.arr])

Pad(n, zero) == [k \in 1..n |-> zero]

\* The capacity runtime.growslice picks for small slices of 48-byte elements:
\* the needed length when it exceeds twice the old capacity, else the double.
GrowCap(old, need) == IF need > 2 * old THEN need ELSE 2 * old

\* append(s, xs...): in place when the capacity suffices, else into a new array.
\* Returns the heap and the new slice header.
GoAppend(as, s, xs, zero) ==
    LET need == s.len + Len(xs) IN
    IF Len(xs) = 0 /\ s.arr = 0 THEN [arrays |-> as, slice |-> s]
    ELSE IF need <= Cap(as, s)
    THEN [arrays |-> [as EXCEPT ![s.arr] =
                        [k \in 1..Len(@) |->
                            IF k > s.len /\ k <= need THEN xs[k - s.len] ELSE @[k]]],
          slice |-> [arr |-> s.arr, len |-> need]]
    ELSE LET c == GrowCap(Cap(as, s), need) IN
         [arrays |-> Append(as, Elems(as, s) \o xs \o Pad(c - need, zero)),
          slice |-> [arr |-> Len(as) + 1, len |-> need]]

-----------------------------------------------------------------------------
(* Deep values: what reflect.DeepEqual compares (nil and empty are told     *)
(* apart, references are followed).                                         *)

MapVal(ms, r) == [nil |-> r = 0, v |-> IF r = 0 THEN EmptyMap ELSE ms[r]]

SliceVal(as, s) == [nil |-> s.arr = 0, v |-> Elems(as, s)]

Deep(ms, as, t) ==
    IF t = NIL THEN NIL
    ELSE [t EXCEPT !.Metadata.Labels = MapVal(ms, @),
                   !.Spec.Identity.Labels = MapVal(ms, @),
                   !.Spec.Network.Ports = SliceVal(as, @),
                   !.Spec.Network.Tailscale.ACLMapping = MapVal(ms, @),
                   !.Spec.Secrets.Entries = SliceVal(as, @)]

-----------------------------------------------------------------------------
(* Primitives of the resolver *)

\* variant: the source value is stored even when it is empty
setAlways(dst, src) == src

setIfNonEmpty(dst, src) == IF src # "" THEN src ELSE dst

RECURSIVE coalesce(_)
coalesce(vals) ==
    IF vals = <<>> THEN ""
    ELSE IF Head(vals) # "" THEN Head(vals)
    ELSE coalesce(Tail(vals))

\* dst[k] = v for every k, v of src
Overlay(d, s) ==
    [k \in DOMAIN d \cup DOMAIN s |-> IF k \in DOMAIN s THEN s[k] ELSE d[k]]

\* variant: the source map takes the place of the destination map
mergeMapsReplace(ms, dst, src) ==
    IF MapLen(ms, src) = 0 THEN [maps |-> ms, ref |-> dst] ELSE [maps |-> ms, ref |-> src]

\* mergeMaps(&dst, src): the heap afterwards and the reference left in *dst
mergeMaps(ms, dst, src) ==
    IF MapLen(ms, src) = 0 THEN [maps |-> ms, ref |-> dst]
    ELSE LET ms1 == IF dst = 0 THEN Append(ms, EmptyMap) ELSE ms
             d == IF dst = 0 THEN Len(ms) + 1 ELSE dst
         IN [maps |-> [ms1 EXCEPT ![d] = Overlay(@, ms1[src])], ref |-> d]

\* the []string fields: "if len(src.X) > 0 { dst.X = src.X }"
setIfNonEmptyList(dst, src) == IF Len(src) > 0 THEN src ELSE dst

-----------------------------------------------------------------------------
(* Slice merge helpers *)

\* The union loop: "for _, p := range src { if _, ok := seen[p.Name]; !ok {
\* out = append(out, p) } }" from position k on; seen is built from dst only.
RECURSIVE unionLoop(_, _, _, _, _, _)
unionLoop(as, out, src, k, seen, zero) ==
    IF k > Len(src) THEN [arrays |-> as, slice |-> out]
    ELSE IF src[k].Name \in seen
    THEN unionLoop(as, out, src, k + 1, seen, zero)
    ELSE LET a == GoAppend(as, out, <<src[k]>>, zero)
         IN unionLoop(a.arrays, a.slice, src, k + 1, seen, zero)

\* "out := make([]T, len(dst)); copy(out, dst)"
makeCopy(as, dst) ==
    [arrays |-> Append(as, Elems(as, dst)),
     slice |-> [arr |-> Len(as) + 1, len |-> dst.len]]

\* variant: no replace branch, an unknown or replace strategy appends
mergePortSliceNoReplace(as, dst, src, strategy) ==
    IF strategy = MergeStrategyUnion
    THEN LET seen == {Elems(as, dst)[k].Name : k \in 1..dst.len}
             out == makeCopy(as, dst)
         IN unionLoop(out.arrays, out.slice, Elems(as, src), 1, seen, ZeroPort)
    ELSE GoAppend(as, dst, Elems(as, src), ZeroPort)

mergePortSlice(as, dst, src, strategy) ==
    CASE strategy = MergeStrategyAppend ->
            GoAppend(as, dst, Elems(as, src), ZeroPort)
      [] strategy = MergeStrategyUnion ->
            LET seen == {Elems(as, dst)[k].Name : k \in 1..dst.len}
                out == makeCopy(as, dst)
            IN unionLoop(out.arrays, out.slice, Elems(as, src), 1, seen, ZeroPort)
      [] OTHER -> [arrays |-> as, slice |-> src]

\* variant: append skips the names the accumulated list already has
mergeSecretEntriesDedup(as, dst, src, strategy) ==
    IF strategy \in {MergeStrategyAppend, MergeStrategyUnion}
    THEN LET seen == {Elems(as, dst)[k].Name : k \in 1..dst.len}
             out == makeCopy(as, dst)
         IN unionLoop(out.arrays, out.slice, Elems(as, src), 1, seen, ZeroEntry)
    ELSE [arrays |-> as, slice |-> src]

mergeSecretEntries(as, dst, src, strategy) ==
    CASE strategy = MergeStrategyAppend ->
            GoAppend(as, dst, Elems(as, src), ZeroEntry)
      [] strategy = MergeStrategyUnion ->
            LET seen == {Elems(as, dst)[k].Name : k \in 1..dst.len}
                out == makeCopy(as, dst)
            IN unionLoop(out.arrays, out.slice, Elems(as, src), 1, seen, ZeroEntry)
      [] OTHER -> [arrays |-> as, slice |-> src]

-----------------------------------------------------------------------------
(* Merge helpers.  st is [res, maps, arrays]: the accumulated result and    *)
(* the heap; src is the layer's sub-struct.  Each returns the new st.       *)

mergeMetadataLabels(st, src) ==
    IF MapLen(st.maps, src.Metadata.Labels) = 0 THEN st
    ELSE LET d0 == st.res.Metadata.Labels
             ms1 == IF d0 = 0 THEN Append(st.maps, EmptyMap) ELSE st.maps
             d == IF d0 = 0 THEN Len(st.maps) + 1 ELSE d0
         IN [st EXCEPT !.maps = [ms1 EXCEPT ![d] = Overlay(@, ms1[src.Metadata.Labels])],
                       !.res.Metadata.Labels = d]

mergeIdentity(st, src) ==
    LET mm == mergeMaps(st.maps, st.res.Spec.Identity.Labels, src.Labels)
    IN [st EXCEPT !.maps = mm.maps,
                  !.res.Spec.Identity =
                      [@ EXCEPT !.InstanceName = setIfNonEmpty(@, src.InstanceName),
                                !.Role = setIfNonEmpty(@, src.Role),
                                !.Region = setIfNonEmpty(@, src.Region),
                                !.Labels = mm.ref,
                                !.TailnetTags = setIfNonEmptyList(@, src.TailnetTags)]]

mergeResource(dst, src) ==
    [dst EXCEPT !.CPU = setIfNonEmpty(@, src.CPU),
                !.Memory = setIfNonEmpty(@, src.Memory),
                !.StoragePaths = setIfNonEmptyList(@, src.StoragePaths)]

mergeImage(dst, src) ==
    [dst EXCEPT !.Repository = setIfNonEmpty(@, src.Repository),
                !.Tag = setIfNonEmpty(@, src.Tag),
                !.PullPolicy = setIfNonEmpty(@, src.PullPolicy)]

mergeRuntime(st, src) ==
    [st EXCEPT !.res.Spec.Runtime =
        [@ EXCEPT !.DeploymentTarget = setIfNonEmpty(@, src.DeploymentTarget),
                  !.Resources = mergeResource(@, src.Resources),
                  !.Image = mergeImage(@, src.Image)]]

\* mergeTailscale(dst, src): the heap afterwards and the struct returned.
\* "return *src" and "out := *dst" copy the struct, not the map it refers to.
mergeTailscale(ms, dst, src) ==
    IF ~dst.set THEN [maps |-> ms, out |-> src]
    ELSE LET mm == mergeMaps(ms, dst.ACLMapping, src.ACLMapping)
         IN [maps |-> mm.maps,
             out |-> [dst EXCEPT !.Enabled = src.Enabled,
                                 !.Provider = setIfNonEmpty(@, src.Provider),
                                 !.Tags = setIfNonEmptyList(@, src.Tags),
                                 !.ACLMapping = mm.ref]]

\* variant: a list is merged whatever its length
anyList(slice) == TRUE

\* "len(src.Ports) > 0", "len(src.Entries) > 0"
nonEmptyList(slice) == slice.len > 0

\* variant: the accumulated tag is consulted before the layer's own
portsStrategyDstFirst(dst, src) ==
    coalesce(<<dst.PortsMergeStrategy, src.PortsMergeStrategy, MergeStrategyReplace>>)

\* the local "strategy" of mergeNetwork / mergeSecrets
portsStrategy(dst, src) ==
    coalesce(<<src.PortsMergeStrategy, dst.PortsMergeStrategy, MergeStrategyReplace>>)

entriesStrategy(dst, src) ==
    coalesce(<<src.EntriesMergeStrategy, dst.EntriesMergeStrategy, MergeStrategyReplace>>)

mergeNetwork(st, src) ==
    LET dst == st.res.Spec.Network
        strategy == portsStrategy(dst, src)
        mp == IF nonEmptyList(src.Ports)
              THEN mergePortSlice(st.arrays, dst.Ports, src.Ports, strategy)
              ELSE [arrays |-> st.arrays, slice |-> dst.Ports]
        mt == IF src.Tailscale.set
              THEN mergeTailscale(st.maps, dst.Tailscale, src.Tailscale)
              ELSE [maps |-> st.maps, out |-> dst.Tailscale]
    IN [st EXCEPT !.arrays = mp.arrays,
                  !.maps = mt.maps,
                  !.res.Spec.Network =
                      [@ EXCEPT !.BindAddress = setIfNonEmpty(@, src.BindAddress),
                                !.Ports = mp.slice,
                                !.PortsMergeStrategy =
                                    IF src.PortsMergeStrategy # ""
                                    THEN src.PortsMergeStrategy ELSE @,
                                !.ReverseProxy =
                                    IF src.ReverseProxy.set THEN src.ReverseProxy ELSE @,
                                !.Tailscale = mt.out,
                                !.MultiGateway =
                                    IF src.MultiGateway.set THEN src.MultiGateway ELSE @]]

mergeSecrets(st, src) ==
    LET dst == st.res.Spec.Secrets
        strategy == entriesStrategy(dst, src)
        me == IF nonEmptyList(src.Entries)
              THEN mergeSecretEntries(st.arrays, dst.Entries, src.Entries, strategy)
              ELSE [arrays |-> st.arrays, slice |-> dst.Entries]
    IN [st EXCEPT !.arrays = me.arrays,
                  !.res.Spec.Secrets =
                      [@ EXCEPT !.Provider = setIfNonEmpty(@, src.Provider),
                                !.Entries = me.slice,
                                !.EntriesMergeStrategy =
                                    IF src.EntriesMergeStrategy # ""
                                    THEN src.EntriesMergeStrategy ELSE @]]

mergeLogging(dst, src) ==
    [dst EXCEPT !.Level = setIfNonEmpty(@, src.Level),
                !.Format = setIfNonEmpty(@, src.Format),
                !.Destinations = setIfNonEmptyList(@, src.Destinations),
                !.RedactionRules = setIfNonEmptyList(@, src.RedactionRules)]

mergeMetrics(dst, src) ==
    [dst EXCEPT !.Enabled = IF src.Enabled THEN TRUE ELSE @,
                !.Endpoint = setIfNonEmpty(@, src.Endpoint),
                !.Format = setIfNonEmpty(@, src.Format)]

mergeTraces(dst, src) ==
    [dst EXCEPT !.Enabled = IF src.Enabled THEN TRUE ELSE @,
                !.Endpoint = setIfNonEmpty(@, src.Endpoint),
                !.Format = setIfNonEmpty(@, src.Format)]

mergeHealthCheck(dst, src) ==
    [dst EXCEPT !.Path = setIfNonEmpty(@, src.Path),
                !.Interval = setIfNonEmpty(@, src.Interval),
                !.Timeout = setIfNonEmpty(@, src.Timeout),
                !.ReadinessGate = IF src.ReadinessGate THEN TRUE ELSE @]

mergeObservability(st, src) ==
    [st EXCEPT !.res.Spec.Observability =
        [@ EXCEPT !.Logging = mergeLogging(@, src.Logging),
                  !.Metrics = mergeMetrics(@, src.Metrics),
                  !.Traces = mergeTraces(@, src.Traces),
                  !.HealthCheck = mergeHealthCheck(@, src.HealthCheck)]]

mergePolicy(st, src) ==
    [st EXCEPT !.res.Spec.Policy =
        [@ EXCEPT !.UpdateChannel = setIfNonEmpty(@, src.UpdateChannel),
                  !.PinnedVersion = setIfNonEmpty(@, src.PinnedVersion),
                  !.ApprovedPlugins = setIfNonEmptyList(@, src.ApprovedPlugins),
                  !.ApprovedProviders = setIfNonEmptyList(@, src.ApprovedProviders),
                  !.FilesystemAllowlist = setIfNonEmptyList(@, src.FilesystemAllowlist),
                  !.CommandAllowlist = setIfNonEmptyList(@, src.CommandAllowlist)]]

mergeSpec(st, src) ==
    LET s1 == mergeIdentity(st, src.Identity)
        s2 == mergeRuntime(s1, src.Runtime)
        s3 == mergeNetwork(s2, src.Network)
        s4 == mergeSecrets(s3, src.Secrets)
        s5 == mergeObservability(s4, src.Observability)
    IN mergePolicy(s5, src.Policy)

-----------------------------------------------------------------------------
(* deepCopy: json.Marshal followed by json.Unmarshal into a fresh Template. *)
(* Marshal drops every omitempty field that is empty (a nil or empty map, a *)
(* nil or empty slice, a nil pointer); Unmarshal leaves a dropped field at  *)
(* its zero value and allocates a new map, array or struct for every field  *)
(* that is present.                                                         *)

\* variant: the encoding leaves the two strategy tags out
jsonMarshalNoTags(ms, as, t) ==
    [t EXCEPT !.Metadata.Labels =
                  [present |-> MapLen(ms, @) > 0, v |-> MapVal(ms, @).v],
              !.Spec.Identity.Labels =
                  [present |-> MapLen(ms, @) > 0, v |-> MapVal(ms, @).v],
              !.Spec.Network.Ports = [present |-> @.len > 0, v |-> Elems(as, @)],
              !.Spec.Network.PortsMergeStrategy = "",
              !.Spec.Network.Tailscale.ACLMapping =
                  [present |-> MapLen(ms, @) > 0, v |-> MapVal(ms, @).v],
              !.Spec.Secrets.Entries = [present |-> @.len > 0, v |-> Elems(as, @)],
              !.Spec.Secrets.EntriesMergeStrategy = ""]

\* the JSON document of t: references replaced by what they hold
jsonMarshal(ms, as, t) ==
    [t EXCEPT !.Metadata.Labels =
                  [present |-> MapLen(ms, @) > 0, v |-> MapVal(ms, @).v],
              !.Spec.Identity.Labels =
                  [present |-> MapLen(ms, @) > 0, v |-> MapVal(ms, @).v],
              !.Spec.Network.Ports = [present |-> @.len > 0, v |-> Elems(as, @)],
              !.Spec.Network.Tailscale.ACLMapping =
                  [present |-> MapLen(ms, @) > 0, v |-> MapVal(ms, @).v],
              !.Spec.Secrets.Entries = [present |-> @.len > 0, v |-> Elems(as, @)]]

\* the decoder appends one element at a time to a slice it grows on demand
RECURSIVE decodeCap(_, _)
decodeCap(c, n) == IF c >= n THEN c ELSE decodeCap(GrowCap(c, c + 1), n)

newMap(ms, f) ==
    IF f.present THEN [maps |-> Append(ms, f.v), ref |-> Len(ms) + 1]
    ELSE [maps |-> ms, ref |-> 0]

newSlice(as, f, zero) ==
    IF f.present
    THEN [arrays |-> Append(as, f.v \o Pad(decodeCap(0, Len(f.v)) - Len(f.v), zero)),
          slice |-> [arr |-> Len(as) + 1, len |-> Len(f.v)]]
    ELSE [arrays |-> as, slice |-> NilSlice]

jsonUnmarshal(ms, as, doc) ==
    LET m1 == newMap(ms, doc.Metadata.Labels)
        m2 == newMap(m1.maps, doc.Spec.Identity.Labels)
        a1 == newSlice(as, doc.Spec.Network.Ports, ZeroPort)
        m3 == newMap(m2.maps, doc.Spec.Network.Tailscale.ACLMapping)
        a2 == newSlice(a1.arrays, doc.Spec.Secrets.Entries, ZeroEntry)
    IN [res |-> [doc EXCEPT !.Metadata.Labels = m1.ref,
                            !.Spec.Identity.Labels = m2.ref,
                            !.Spec.Network.Ports = a1.slice,
                            !.Spec.Network.Tailscale.ACLMapping = m3.ref,
                            !.Spec.Secrets.Entries = a2.slice],
        maps |-> m3.maps,
        arrays |-> a2.arrays]

\* variant: the struct is copied, the maps and arrays it refers to are shared
deepCopyShallow(ms, as, t) == [res |-> t, maps |-> ms, arrays |-> as]

deepCopy(ms, as, t) == jsonUnmarshal(ms, as, jsonMarshal(ms, as, t))

-----------------------------------------------------------------------------
(* Documents.  A document is what a YAML file or a struct literal denotes:  *)
(* a Template whose map and list fields are [present, v] values.  Loading a *)
(* document (Registry.loadTemplate, or building the literal) allocates the  *)
(* maps and arrays it needs, like the JSON decoder does.                    *)

ZeroDoc == jsonMarshal(<<>>, <<>>, ZeroTemplate)

Field(v) == [present |-> TRUE, v |-> v]
ListField(l) == [present |-> Len(l) > 0, v |-> l]

\* loads docs[k..] one after the other onto the heap
RECURSIVE loadAll(_, _, _, _, _)
loadAll(docs, k, ms, as, acc) ==
    IF k > Len(docs) THEN [ts |-> acc, maps |-> ms, arrays |-> as]
    ELSE IF docs[k] = NIL THEN loadAll(docs, k + 1, ms, as, Append(acc, NIL))
    ELSE LET l == jsonUnmarshal(ms, as, docs[k])
         IN loadAll(docs, k + 1, l.maps, l.arrays, Append(acc, l.res))

\* the state in which Resolve(b, ls...) is about to be called
CallState(b, ls) ==
    LET h == loadAll(<<b>> \o ls, 1, <<>>, <<>>, <<>>)
    IN /\ base = h.ts[1]
       /\ layers = Tail(h.ts)
       /\ maps = h.maps
       /\ arrays = h.arrays
       /\ heap0 = [maps |-> h.maps, arrays |-> h.arrays]
       /\ result = NIL
       /\ i = 0
       /\ pc = "call"
       /\ step = [layer |-> 0, portsStrategy |-> "", entriesStrategy |-> "",
                  accPorts |-> <<>>, accEntries |-> <<>>]

\* the runs of n elements of pool, taken cyclically
Windows(pool, n) ==
    {[k \in 1..n |-> pool[((s + k - 2) % Len(pool)) + 1]] : s \in 1..Len(pool)}

\* the non-empty prefixes of pool with at most n elements
Prefixes(pool, n) == {SubSeq(pool, 1, m) : m \in 1..(IF n < Len(pool) THEN n ELSE Len(pool))}

-----------------------------------------------------------------------------
(* Scalar fields and flags of the spec, by their document path *)

ScalarFields ==
    {"identity.instance_name", "identity.role", "identity.region",
     "runtime.deployment_target", "runtime.resources.cpu", "runtime.resources.memory",
     "runtime.image.repository", "runtime.image.tag", "runtime.image.pull_policy",
     "network.bind_address", "secrets.provider",
     "observability.logging.level", "observability.logging.format",
     "observability.metrics.endpoint", "observability.metrics.format",
     "observability.traces.endpoint", "observability.traces.format",
     "observability.health_check.path", "observability.health_check.interval",
     "observability.health_check.timeout",
     "policy.update_channel", "policy.pinned_version"}

FlagFields ==
    {"observability.metrics.enabled", "observability.traces.enabled",
     "observability.health_check.readiness_gate"}

Get(t, f) ==
    CASE f = "identity.instance_name" -> t.Spec.Identity.InstanceName
      [] f = "identity.role" -> t.Spec.Identity.Role
      [] f = "identity.region" -> t.Spec.Identity.Region
      [] f = "runtime.deployment_target" -> t.Spec.Runtime.DeploymentTarget
      [] f = "runtime.resources.cpu" -> t.Spec.Runtime.Resources.CPU
      [] f = "runtime.resources.memory" -> t.Spec.Runtime.Resources.Memory
      [] f = "runtime.image.repository" -> t.Spec.Runtime.Image.Repository
      [] f = "runtime.image.tag" -> t.Spec.Runtime.Image.Tag
      [] f = "runtime.image.pull_policy" -> t.Spec.Runtime.Image.PullPolicy
      [] f = "network.bind_address" -> t.Spec.Network.BindAddress
      [] f = "secrets.provider" -> t.Spec.Secrets.Provider
      [] f = "observability.logging.level" -> t.Spec.Observability.Logging.Level
      [] f = "observability.logging.format" -> t.Spec.Observability.Logging.Format
      [] f = "observability.metrics.endpoint" -> t.Spec.Observability.Metrics.Endpoint
      [] f = "observability.metrics.format" -> t.Spec.Observability.Metrics.Format
      [] f = "observability.traces.endpoint" -> t.Spec.Observability.Traces.Endpoint
      [] f = "observability.traces.format" -> t.Spec.Observability.Traces.Format
      [] f = "observability.health_check.path" -> t.Spec.Observability.HealthCheck.Path
      [] f = "observability.health_check.interval" ->
            t.Spec.Observability.HealthCheck.Interval
      [] f = "observability.health_check.timeout" ->
            t.Spec.Observability.HealthCheck.Timeout
      [] f = "policy.update_channel" -> t.Spec.Policy.UpdateChannel
      [] f = "policy.pinned_version" -> t.Spec.Policy.PinnedVersion
      [] f = "observability.metrics.enabled" -> t.Spec.Observability.Metrics.Enabled
      [] f = "observability.traces.enabled" -> t.Spec.Observability.Traces.Enabled
      [] f = "observability.health_check.readiness_gate" ->
            t.Spec.Observability.HealthCheck.ReadinessGate

Set(t, f, v) ==
    CASE f = "identity.instance_name" -> [t EXCEPT !.Spec.Identity.InstanceName = v]
      [] f = "identity.role" -> [t EXCEPT !.Spec.Identity.Role = v]
      [] f = "identity.region" -> [t EXCEPT !.Spec.Identity.Region = v]
      [] f = "runtime.deployment_target" -> [t EXCEPT !.Spec.Runtime.DeploymentTarget = v]
      [] f = "runtime.resources.cpu" -> [t EXCEPT !.Spec.Runtime.Resources.CPU = v]
      [] f = "runtime.resources.memory" -> [t EXCEPT !.Spec.Runtime.Resources.Memory = v]
      [] f = "runtime.image.repository" -> [t EXCEPT !.Spec.Runtime.Image.Repository = v]
      [] f = "runtime.image.tag" -> [t EXCEPT !.Spec.Runtime.Image.Tag = v]
      [] f = "runtime.image.pull_policy" -> [t EXCEPT !.Spec.Runtime.Image.PullPolicy = v]
      [] f = "network.bind_address" -> [t EXCEPT !.Spec.Network.BindAddress = v]
      [] f = "secrets.provider" -> [t EXCEPT !.Spec.Secrets.Provider = v]
      [] f = "observability.logging.level" ->
            [t EXCEPT !.Spec.Observability.Logging.Level = v]
      [] f = "observability.logging.format" ->
            [t EXCEPT !.Spec.Observability.Logging.Format = v]
      [] f = "observability.metrics.endpoint" ->
            [t EXCEPT !.Spec.Observability.Metrics.Endpoint = v]
      [] f = "observability.metrics.format" ->
            [t EXCEPT !.Spec.Observability.Metrics.Format = v]
      [] f = "observability.traces.endpoint" ->
            [t EXCEPT !.Spec.Observability.Traces.Endpoint = v]
      [] f = "observability.traces.format" ->
            [t EXCEPT !.Spec.Observability.Traces.Format = v]
      [] f = "observability.health_check.path" ->
            [t EXCEPT !.Spec.Observability.HealthCheck.Path = v]
      [] f = "observability.health_check.interval" ->
            [t EXCEPT !.Spec.Observability.HealthCheck.Interval = v]
      [] f = "observability.health_check.timeout" ->
            [t EXCEPT !.Spec.Observability.HealthCheck.Timeout = v]
      [] f = "policy.update_channel" -> [t EXCEPT !.Spec.Policy.UpdateChannel = v]
      [] f = "policy.pinned_version" -> [t EXCEPT !.Spec.Policy.PinnedVersion = v]
      [] f = "observability.metrics.enabled" ->
            [t EXCEPT !.Spec.Observability.Metrics.Enabled = v]
      [] f = "observability.traces.enabled" ->
            [t EXCEPT !.Spec.Observability.Traces.Enabled = v]
      [] f = "observability.health_check.readiness_gate" ->
            [t EXCEPT !.Spec.Observability.HealthCheck.ReadinessGate = v]

-----------------------------------------------------------------------------
(* Inputs of Resolve: the documents the calls are drawn from *)

RECURSIVE SetAll(_, _, _)
SetAll(t, F, v) ==
    IF F = {} THEN t
    ELSE LET f == CHOOSE x \in F : TRUE IN SetAll(Set(t, f, v), F \ {f}, v)

\* a base with every scalar of the spec set
FullDoc == SetAll([ZeroDoc EXCEPT !.Metadata.Name = "base"], ScalarFields, "z")

Values(f) == IF f \in FlagFields THEN BOOLEAN ELSE {"", "a", "b"}

\* what the bases list, and what the layers bring: a name the base has
\* (http, api-key), and a new name twice (https, tls-cert)
BasePorts == <<PortSpec("http", 8080, 0, "tcp"), PortSpec("metrics", 9090, 0, ""),
               PortSpec("admin", 9000, 9001, "tcp")>>
LayerPorts == <<PortSpec("http", 80, 0, ""), PortSpec("https", 443, 0, ""),
                PortSpec("https", 8443, 0, "tcp")>>

BaseEntries == <<SecretEntry("api-key", "api_key", "builtin://api-key"),
                 SecretEntry("db", "db_cred", "vault://db"),
                 SecretEntry("node", "node_key", "builtin://node")>>
LayerEntries == <<SecretEntry("api-key", "api_key", "builtin://new"),
                  SecretEntry("tls-cert", "cert", "builtin://tls"),
                  SecretEntry("tls-cert", "cert", "k8s://ns/tls/crt")>>

Tags == {"", MergeStrategyReplace, MergeStrategyAppend, MergeStrategyUnion}

PortsDoc(l, tag) ==
    [ZeroDoc EXCEPT !.Spec.Network.Ports = ListField(l),
                    !.Spec.Network.PortsMergeStrategy = tag]

EntriesDoc(l, tag) ==
    [ZeroDoc EXCEPT !.Spec.Secrets.Entries = ListField(l),
                    !.Spec.Secrets.EntriesMergeStrategy = tag]

\* bases carry both lists; in each call the layers carry port lists (or
\* secret-entry lists) and strategy tags
BaseTags == {"", MergeStrategyUnion, MergeStrategyAppend}

WithBothLists(d) ==
    [d EXCEPT !.Metadata.Name = "base",
              !.Spec.Network.Ports = IF @.present THEN @ ELSE ListField(<<BasePorts[1]>>),
              !.Spec.Secrets.Entries = IF @.present THEN @ ELSE ListField(<<BaseEntries[1]>>)]

PortBases ==
    {WithBothLists(PortsDoc(l, tag)) : l \in Prefixes(BasePorts, MaxLen), tag \in BaseTags}
    \cup {[ZeroDoc EXCEPT !.Metadata.Name = "base"]}

EntryBases ==
    {WithBothLists(EntriesDoc(l, tag)) : l \in Prefixes(BaseEntries, MaxLen),
                                         tag \in BaseTags}
    \cup {[ZeroDoc EXCEPT !.Metadata.Name = "base"]}

\* a layer carries no list or MaxLen entries, under every tag
PortLayers == {PortsDoc(l, tag) : l \in Windows(LayerPorts, MaxLen) \cup {<<>>}, tag \in Tags}
EntryLayers ==
    {EntriesDoc(l, tag) : l \in Windows(LayerEntries, MaxLen) \cup {<<>>}, tag \in Tags}

LabelKeys == {"env", "tier"}
LabelVals == {"prod", "edge"}

\* every map from a subset of the keys to the values
LabelMaps == UNION {[K -> LabelVals] : K \in SUBSET LabelKeys}

MetaLabelsDoc(m) == [ZeroDoc EXCEPT !.Metadata.Labels = [present |-> m # EmptyMap, v |-> m]]
IdLabelsDoc(m) ==
    [ZeroDoc EXCEPT !.Spec.Identity.Labels = [present |-> m # EmptyMap, v |-> m]]

\* documents with an explicitly empty label map ("labels: {}")
EmptyLabelsDocs ==
    {[ZeroDoc EXCEPT !.Metadata.Labels = Field(EmptyMap)],
     [ZeroDoc EXCEPT !.Spec.Identity.Labels = Field(EmptyMap)]}

MetaLabelDocs == {MetaLabelsDoc(m) : m \in LabelMaps}
IdLabelDocs == {IdLabelsDoc(m) : m \in LabelMaps}

ACLMaps == {EmptyMap, [k \in {"admin"} |-> "tag:ops"], [k \in {"dev"} |-> "tag:dev"]}

TailscaleDoc(en, prov, tags, acl) ==
    [ZeroDoc EXCEPT !.Spec.Network.Tailscale =
        [set |-> TRUE, Enabled |-> en, Provider |-> prov, Tags |-> tags,
         ACLMapping |-> [present |-> acl # EmptyMap, v |-> acl]]]

\* a layer's block sets a provider, or tags, or neither
TailscaleDocs ==
    {TailscaleDoc(en, pt[1], pt[2], acl) :
        en \in BOOLEAN,
        pt \in {<<"", <<>>>>, <<"headscale", <<>>>>, <<"", <<"tag:gw">>>>},
        acl \in ACLMaps}

TailscaleBases ==
    {ZeroDoc, TailscaleDoc(TRUE, "tailscale", <<"tag:base">>, [k \in {"admin"} |-> "tag:root"])}

Kinds == {KindEncodingTemplate, KindRoleOverlay, KindEnvironmentOverlay, KindInstanceVars, ""}

KindDoc(kind, version) ==
    [ZeroDoc EXCEPT !.Kind = kind, !.APIVersion = version, !.Metadata.Name = "doc"]

KindBases == {KindDoc(kd, v) : kd \in Kinds, v \in {APIVersion, "", "v0"}}
KindLayers == {KindDoc(kd, APIVersion) : kd \in Kinds} \cup {NIL}

\* WriteBundle has not been called
WbIdle == [wrote |-> <<>>, err |-> NIL]

\* no gateway is registered and no request is being served
ServiceIdle == store = <<>> /\ now = 0 /\ reqs = {} /\ fan = NIL

FoldIdle == fold = NIL

\* nothing has been dispatched, rendered, written or hashed yet
NothingRun ==
    /\ renderer = NIL
    /\ rerr = NIL
    /\ bundles = <<>>
    /\ wb = WbIdle
    /\ disk = <<>>
    /\ exit = -1
    /\ stages = <<>>
    /\ plan = NIL
    /\ hashes = <<>>
    /\ calls = <<>>

CommandFresh == NothingRun /\ ServiceIdle

\* no command is running
CommandIdle == CommandFresh /\ flags = NIL /\ required = {}

ValidateIdle == vt = ZeroTemplate /\ errs = <<>> /\ verr = "pending" /\ CommandIdle

\* Resolve(b, ls...) for a base of Bases and up to MaxLayers layers of Layers
Calls(Bases, Layers) ==
    /\ \E b \in Bases : \E n \in 0..MaxLayers : \E ls \in [1..n -> Layers] :
          CallState(b, ls)
    /\ ValidateIdle /\ FoldIdle

\* Resolve(nil), and a call whose first layer is nil
NilCalls ==
    /\ \/ CallState(NIL, <<>>)
       \/ CallState(FullDoc, <<NIL, Set(ZeroDoc, "identity.role", RoleGateway)>>)
    /\ ValidateIdle /\ FoldIdle

\* base and layers differ in one scalar or flag f; the base sets every scalar
InitScalars ==
    \/ \E f \in ScalarFields \cup FlagFields :
          Calls({Set(FullDoc, f, v) : v \in Values(f)},
                {Set(ZeroDoc, f, v) : v \in Values(f)})
    \/ NilCalls

InitLists ==
    \/ Calls(PortBases, PortLayers)
    \/ Calls(EntryBases, EntryLayers)
    \/ NilCalls

InitLabels ==
    \/ Calls(MetaLabelDocs \cup EmptyLabelsDocs, MetaLabelDocs)
    \/ Calls(IdLabelDocs \cup EmptyLabelsDocs, IdLabelDocs)
    \/ NilCalls

InitTailscale ==
    \/ Calls(TailscaleBases, TailscaleDocs \cup {ZeroDoc})
    \/ NilCalls

InitKinds ==
    \/ Calls(KindBases, KindLayers)
    \/ NilCalls

Init == InitScalars \/ InitLists \/ InitLabels \/ InitTailscale \/ InitKinds

-----------------------------------------------------------------------------
(* Resolve, one action per step of the function *)

\* "if base == nil { return nil, fmt.Errorf(...) }"
ResolveNilBase ==
    /\ pc = "call"
    /\ base = NIL
    /\ pc' = "error"
    /\ UNCHANGED <<base, layers, maps, arrays, result, i, step, heap0>>
    /\ UNCHANGED validateVars
    /\ UNCHANGED commandVars
    /\ UNCHANGED restVars

\* variant: the copy keeps the kind and apiVersion of the base
ResolveBeginKeepKind ==
    /\ pc = "call"
    /\ base # NIL
    /\ LET c == deepCopy(maps, arrays, base)
       IN /\ result' = c.res
          /\ maps' = c.maps
          /\ arrays' = c.arrays
    /\ i' = 1
    /\ pc' = "loop"
    /\ UNCHANGED <<base, layers, step, heap0>>
    /\ UNCHANGED validateVars
    /\ UNCHANGED commandVars
    /\ UNCHANGED restVars

\* deepCopy(base), then the forced apiVersion and kind
ResolveBegin ==
    /\ pc = "call"
    /\ base # NIL
    /\ LET c == deepCopy(maps, arrays, base)
       IN /\ result' = [c.res EXCEPT !.APIVersion = APIVersion,
                                     !.Kind = KindEncodingTemplate]
          /\ maps' = c.maps
          /\ arrays' = c.arrays
    /\ i' = 1
    /\ pc' = "loop"
    /\ UNCHANGED <<base, layers, step, heap0>>
    /\ UNCHANGED validateVars
    /\ UNCHANGED commandVars
    /\ UNCHANGED restVars

\* "if layer == nil { continue }"
SkipNilLayer ==
    /\ pc = "loop"
    /\ i <= Len(layers)
    /\ layers[i] = NIL
    /\ i' = i + 1
    /\ UNCHANGED <<base, layers, maps, arrays, result, pc, step, heap0>>
    /\ UNCHANGED validateVars
    /\ UNCHANGED commandVars
    /\ UNCHANGED restVars

\* one iteration of the loop: mergeSpec, then mergeMetadataLabels
MergeLayer ==
    /\ pc = "loop"
    /\ i <= Len(layers)
    /\ layers[i] # NIL
    /\ LET layer == layers[i]
           s1 == mergeSpec([res |-> result, maps |-> maps, arrays |-> arrays], layer.Spec)
           s2 == mergeMetadataLabels(s1, layer)
       IN /\ result' = s2.res
          /\ maps' = s2.maps
          /\ arrays' = s2.arrays
          /\ step' = [layer |-> i,
                      portsStrategy |-> portsStrategy(result.Spec.Network,
                                                      layer.Spec.Network),
                      entriesStrategy |-> entriesStrategy(result.Spec.Secrets,
                                                          layer.Spec.Secrets),
                      accPorts |-> Elems(arrays, result.Spec.Network.Ports),
                      accEntries |-> Elems(arrays, result.Spec.Secrets.Entries)]
    /\ i' = i + 1
    /\ UNCHANGED <<base, layers, pc, heap0>>
    /\ UNCHANGED validateVars
    /\ UNCHANGED commandVars
    /\ UNCHANGED restVars

\* "return result, nil"
ResolveReturn ==
    /\ pc = "loop"
    /\ i > Len(layers)
    /\ pc' = "done"
    /\ UNCHANGED <<base, layers, maps, arrays, result, i, step, heap0>>
    /\ UNCHANGED validateVars
    /\ UNCHANGED commandVars
    /\ UNCHANGED restVars

Next ==
    \/ ResolveNilBase
    \/ ResolveBegin
    \/ SkipNilLayer
    \/ MergeLayer
    \/ ResolveReturn

Spec == Init /\ [][Next]_vars
SpecScalars == InitScalars /\ [][Next]_vars
SpecLists == InitLists /\ [][Next]_vars
SpecLabels == InitLabels /\ [][Next]_vars
SpecTailscale == InitTailscale /\ [][Next]_vars
SpecKinds == InitKinds /\ [][Next]_vars

-----------------------------------------------------------------------------
(* Validate.  An error message is kept as the format string and its         *)
(* arguments, in the order fmt.Sprintf receives them.                       *)

validRoles == {RoleGateway, RoleControlPlane, RoleWorker, RoleObservability, RoleDBAdjunct}
validTargets == {TargetPodman, TargetKubernetes, TargetOpenShift, TargetDroplet, TargetSandbox}
validSecretsProviders == {"builtin", "vault", "k8s_secrets"}
validSecretTypes == {"api_key", "node_key", "oauth_cred", "db_cred", "cert"}
validMergeStrategies == {MergeStrategyReplace, MergeStrategyAppend, MergeStrategyUnion}
validLogLevels == {"debug", "info", "warn", "error"}
validUpdateChannels == {"stable", "beta", "nightly", "pinned"}

isValidRole(x) == x \in validRoles
isValidTarget(x) == x \in validTargets
isValidSecretsProvider(x) == x \in validSecretsProviders
isValidSecretType(x) == x \in validSecretTypes
isValidMergeStrategy(x) == x \in validMergeStrategies
isValidLogLevel(x) == x \in validLogLevels
isValidUpdateChannel(x) == x \in validUpdateChannels

validRolesStr == "gateway, control-plane, worker, observability, db-adjunct"
validTargetsStr == "podman, kubernetes, openshift, droplet, sandbox"

MaxPort == 65535

\* net.ParseIP(x) != nil, on the addresses the documents use
ParseIP(x) == x \in {"0.0.0.0", "127.0.0.1", "10.0.0.5", "::1"}

\* the closure add: one message appended to errs
add(fmt, args) == <<[fmt |-> fmt, args |-> args]>>

\* if cond { add(...) }
when(cond, msg) == IF cond THEN msg ELSE <<>>

\* variant: the loop over the ports ends at the first port found defective
RECURSIVE portLoopFirst(_, _, _, _)
portLoopFirst(ports, k, portNames, portNumbers) ==
    IF k > Len(ports) THEN <<>>
    ELSE LET p == ports[k]
             idx == k - 1
             found ==
                when(p.Name = "", add("network.ports[%d].name is required", <<idx>>))
                \o when(p.Port <= 0 \/ p.Port > MaxPort,
                        add("network.ports[%d].port %d is out of range (1-65535)",
                            <<idx, p.Port>>))
                \o when(p.HostPort # 0 /\ (p.HostPort <= 0 \/ p.HostPort > MaxPort),
                        add("network.ports[%d].host_port %d is out of range (1-65535)",
                            <<idx, p.HostPort>>))
                \o when(p.Name \in DOMAIN portNames,
                        add("network.ports[%d].name %q duplicates ports[%d]",
                            <<idx, p.Name, portNames[p.Name]>>))
                \o when(p.Port \in DOMAIN portNumbers,
                        add("network.ports[%d].port %d conflicts with port named %q",
                            <<idx, p.Port, portNumbers[p.Port]>>))
         IN IF found # <<>> THEN found
            ELSE portLoopFirst(ports, k + 1,
                               Overlay(portNames, [x \in {p.Name} |-> idx]),
                               Overlay(portNumbers, [x \in {p.Port} |-> p.Name]))

\* variant: the port numbers seen are never recorded
RECURSIVE portLoopNoNumbers(_, _, _, _)
portLoopNoNumbers(ports, k, portNames, portNumbers) ==
    IF k > Len(ports) THEN <<>>
    ELSE LET p == ports[k]
             idx == k - 1
         IN when(p.Name = "", add("network.ports[%d].name is required", <<idx>>))
            \o when(p.Port <= 0 \/ p.Port > MaxPort,
                    add("network.ports[%d].port %d is out of range (1-65535)",
                        <<idx, p.Port>>))
            \o when(p.HostPort # 0 /\ (p.HostPort <= 0 \/ p.HostPort > MaxPort),
                    add("network.ports[%d].host_port %d is out of range (1-65535)",
                        <<idx, p.HostPort>>))
            \o when(p.Name \in DOMAIN portNames,
                    add("network.ports[%d].name %q duplicates ports[%d]",
                        <<idx, p.Name, portNames[p.Name]>>))
            \o when(p.Port \in DOMAIN portNumbers,
                    add("network.ports[%d].port %d conflicts with port named %q",
                        <<idx, p.Port, portNumbers[p.Port]>>))
            \o portLoopNoNumbers(ports, k + 1,
                                 Overlay(portNames, [x \in {p.Name} |-> idx]),
                                 portNumbers)

\* the loop over nw.Ports from position k on (Go index k - 1)
RECURSIVE portLoop(_, _, _, _)
portLoop(ports, k, portNames, portNumbers) ==
    IF k > Len(ports) THEN <<>>
    ELSE LET p == ports[k]
             idx == k - 1
         IN when(p.Name = "", add("network.ports[%d].name is required", <<idx>>))
            \o when(p.Port <= 0 \/ p.Port > MaxPort,
                    add("network.ports[%d].port %d is out of range (1-65535)",
                        <<idx, p.Port>>))
            \o when(p.HostPort # 0 /\ (p.HostPort <= 0 \/ p.HostPort > MaxPort),
                    add("network.ports[%d].host_port %d is out of range (1-65535)",
                        <<idx, p.HostPort>>))
            \o when(p.Name \in DOMAIN portNames,
                    add("network.ports[%d].name %q duplicates ports[%d]",
                        <<idx, p.Name, portNames[p.Name]>>))
            \o when(p.Port \in DOMAIN portNumbers,
                    add("network.ports[%d].port %d conflicts with port named %q",
                        <<idx, p.Port, portNumbers[p.Port]>>))
            \o portLoop(ports, k + 1,
                        Overlay(portNames, [x \in {p.Name} |-> idx]),
                        Overlay(portNumbers, [x \in {p.Port} |-> p.Name]))

\* the loop over sec.Entries
RECURSIVE entryLoop(_, _)
entryLoop(entries, k) ==
    IF k > Len(entries) THEN <<>>
    ELSE LET e == entries[k]
             idx == k - 1
         IN when(e.Name = "", add("secrets.entries[%d].name is required", <<idx>>))
            \o (IF e.Type = ""
                THEN add("secrets.entries[%d].type is required", <<idx>>)
                ELSE when(~isValidSecretType(e.Type),
                          add("secrets.entries[%d].type %q is not recognized",
                              <<idx, e.Type>>)))
            \o when(e.Ref = "",
                    add("secrets.entries[%d].ref is required (must be a URI reference, never a plaintext value)",
                        <<idx>>))
            \o entryLoop(entries, k + 1)

\* variant: the two conditions of the cross-field check joined by "or"
crossFieldOr(as, t) ==
    when(t.Spec.Identity.Role = RoleGateway \/ t.Spec.Network.Ports.len = 0,
         add("gateway role requires at least one network port", <<>>))

\* "if id.Role == RoleGateway && len(nw.Ports) == 0 { add(...) }"
crossField(as, t) ==
    when(t.Spec.Identity.Role = RoleGateway /\ t.Spec.Network.Ports.len = 0,
         add("gateway role requires at least one network port", <<>>))

\* the errs Validate has collected when it reaches its last statement
Validate(as, t) ==
    LET id == t.Spec.Identity
        rt == t.Spec.Runtime
        nw == t.Spec.Network
        sec == t.Spec.Secrets
        obs == t.Spec.Observability
        pol == t.Spec.Policy
    IN when(t.APIVersion = "", add("apiVersion is required", <<>>))
       \o when(t.Kind = "", add("kind is required", <<>>))
       \o when(t.Metadata.Name = "", add("metadata.name is required", <<>>))
       \o when(id.Role # "" /\ ~isValidRole(id.Role),
               add("identity.role %q is not a recognized role (valid: %s)",
                   <<id.Role, validRolesStr>>))
       \o when(rt.DeploymentTarget # "" /\ ~isValidTarget(rt.DeploymentTarget),
               add("runtime.deployment_target %q is not recognized (valid: %s)",
                   <<rt.DeploymentTarget, validTargetsStr>>))
       \o when(nw.BindAddress # "" /\ ~ParseIP(nw.BindAddress),
               add("network.bind_address %q is not a valid IP address", <<nw.BindAddress>>))
       \o portLoop(Elems(as, nw.Ports), 1, EmptyMap, EmptyMap)
       \o when(nw.PortsMergeStrategy # "" /\ ~isValidMergeStrategy(nw.PortsMergeStrategy),
               add("network.ports_merge_strategy %q is invalid (valid: replace, append, union)",
                   <<nw.PortsMergeStrategy>>))
       \o when(sec.Provider # "" /\ ~isValidSecretsProvider(sec.Provider),
               add("secrets.provider %q is not recognized (valid: builtin, vault, k8s_secrets)",
                   <<sec.Provider>>))
       \o entryLoop(Elems(as, sec.Entries), 1)
       \o when(sec.EntriesMergeStrategy # ""
               /\ ~isValidMergeStrategy(sec.EntriesMergeStrategy),
               add("secrets.entries_merge_strategy %q is invalid",
                   <<sec.EntriesMergeStrategy>>))
       \o when(obs.Logging.Level # "" /\ ~isValidLogLevel(obs.Logging.Level),
               add("observability.logging.level %q is invalid (valid: debug, info, warn, error)",
                   <<obs.Logging.Level>>))
       \o when(obs.Logging.Format # "" /\ obs.Logging.Format # "json"
               /\ obs.Logging.Format # "text",
               add("observability.logging.format %q is invalid (valid: json, text)",
                   <<obs.Logging.Format>>))
       \o when(pol.UpdateChannel # "" /\ ~isValidUpdateChannel(pol.UpdateChannel),
               add("policy.update_channel %q is invalid (valid: stable, beta, nightly, pinned)",
                   <<pol.UpdateChannel>>))
       \o crossField(as, t)

\* Validate(vt): "if len(errs) > 0 { return &ValidationError{Errors: errs} };
\* return nil"
ValidateCall ==
    /\ pc = "validate"
    /\ LET es == Validate(arrays, vt)
       IN /\ errs' = es
          /\ verr' = IF Len(es) > 0 THEN "ValidationError" ELSE "nil"
    /\ pc' = "validated"
    /\ UNCHANGED <<base, layers, maps, arrays, result, i, step, heap0, vt>>
    /\ UNCHANGED commandVars
    /\ UNCHANGED restVars

NextValidate == ValidateCall

-----------------------------------------------------------------------------
(* Inputs of Validate: the valid template of the tests, or the empty one,   *)
(* with up to MaxDefects defects                                            *)

ValidDoc ==
    [ZeroDoc EXCEPT
        !.APIVersion = APIVersion,
        !.Kind = KindEncodingTemplate,
        !.Metadata.Name = "test",
        !.Spec.Identity.InstanceName = "gw-1",
        !.Spec.Identity.Role = RoleGateway,
        !.Spec.Identity.Region = "us-east-1",
        !.Spec.Runtime.DeploymentTarget = TargetPodman,
        !.Spec.Network.BindAddress = "0.0.0.0",
        !.Spec.Network.Ports =
            Field(<<PortSpec("https", 443, 0, "tcp"), PortSpec("http", 8080, 0, "tcp")>>),
        !.Spec.Secrets.Provider = "builtin",
        !.Spec.Secrets.Entries =
            Field(<<SecretEntry("api-key", "api_key", "builtin://api-key")>>),
        !.Spec.Observability.Logging.Level = "info",
        !.Spec.Observability.Logging.Format = "json",
        !.Spec.Policy.UpdateChannel = "stable"]

\* the defects, in the order they are applied
Defects ==
    <<"apiVersion", "kind", "name", "role", "worker", "target", "bind",
      "port.name", "port.zero", "port.big", "hostport", "port.dupname", "port.dupnumber",
      "ports.tag", "noports", "provider", "entry.name", "entry.notype", "entry.badtype",
      "entry.ref", "entries.tag", "level", "format", "channel">>

\* port k of the list f changed by the record update u, if the list has a port k
SetItem(f, k, u) ==
    IF k > Len(f.v) THEN f ELSE [f EXCEPT !.v[k] = [x \in DOMAIN @ |->
                                        IF x \in DOMAIN u THEN u[x] ELSE @[x]]]

Defect(d, name) ==
    LET ports == d.Spec.Network.Ports.v IN
    CASE name = "apiVersion" -> [d EXCEPT !.APIVersion = ""]
      [] name = "kind" -> [d EXCEPT !.Kind = ""]
      [] name = "name" -> [d EXCEPT !.Metadata.Name = ""]
      [] name = "role" -> [d EXCEPT !.Spec.Identity.Role = "not-a-role"]
      [] name = "worker" -> [d EXCEPT !.Spec.Identity.Role = RoleWorker]
      [] name = "target" -> [d EXCEPT !.Spec.Runtime.DeploymentTarget = "baremetal"]
      [] name = "bind" -> [d EXCEPT !.Spec.Network.BindAddress = "localhost"]
      [] name = "port.name" ->
            [d EXCEPT !.Spec.Network.Ports = SetItem(@, 1, [Name |-> ""])]
      [] name = "port.zero" ->
            [d EXCEPT !.Spec.Network.Ports = SetItem(@, 2, [Port |-> 0])]
      [] name = "port.big" ->
            [d EXCEPT !.Spec.Network.Ports = SetItem(@, 1, [Port |-> 70000])]
      [] name = "hostport" ->
            [d EXCEPT !.Spec.Network.Ports = SetItem(@, 2, [HostPort |-> -1])]
      [] name = "port.dupname" ->
            [d EXCEPT !.Spec.Network.Ports =
                IF Len(ports) < 2 THEN @ ELSE SetItem(@, 2, [Name |-> ports[1].Name])]
      [] name = "port.dupnumber" ->
            [d EXCEPT !.Spec.Network.Ports =
                IF Len(ports) < 2 THEN @ ELSE SetItem(@, 2, [Port |-> ports[1].Port])]
      [] name = "ports.tag" -> [d EXCEPT !.Spec.Network.PortsMergeStrategy = "merge"]
      [] name = "noports" -> [d EXCEPT !.Spec.Network.Ports = ListField(<<>>)]
      [] name = "provider" -> [d EXCEPT !.Spec.Secrets.Provider = "aws"]
      [] name = "entry.name" ->
            [d EXCEPT !.Spec.Secrets.Entries = SetItem(@, 1, [Name |-> ""])]
      [] name = "entry.notype" ->
            [d EXCEPT !.Spec.Secrets.Entries = SetItem(@, 1, [Type |-> ""])]
      [] name = "entry.badtype" ->
            [d EXCEPT !.Spec.Secrets.Entries = SetItem(@, 1, [Type |-> "unknown_type"])]
      [] name = "entry.ref" ->
            [d EXCEPT !.Spec.Secrets.Entries = SetItem(@, 1, [Ref |-> ""])]
      [] name = "entries.tag" -> [d EXCEPT !.Spec.Secrets.EntriesMergeStrategy = "prepend"]
      [] name = "level" -> [d EXCEPT !.Spec.Observability.Logging.Level = "trace"]
      [] name = "format" -> [d EXCEPT !.Spec.Observability.Logging.Format = "xml"]
      [] name = "channel" -> [d EXCEPT !.Spec.Policy.UpdateChannel = "edge"]

RECURSIVE WithDefects(_, _, _)
WithDefects(d, D, k) ==
    IF k > Len(Defects) THEN d
    ELSE WithDefects(IF k \in D THEN Defect(d, Defects[k]) ELSE d, D, k + 1)

\* Validate(t) is about to be called on a loaded document
InitValidate ==
    \E d \in {ValidDoc, ZeroDoc} :
    \E D \in {X \in SUBSET (1..Len(Defects)) : Cardinality(X) <= MaxDefects} :
       LET l == jsonUnmarshal(<<>>, <<>>, WithDefects(d, D, 1))
       IN /\ vt = l.res
          /\ maps = l.maps
          /\ arrays = l.arrays
          /\ heap0 = [maps |-> l.maps, arrays |-> l.arrays]
          /\ base = NIL
          /\ layers = <<>>
          /\ result = NIL
          /\ i = 0
          /\ step = [layer |-> 0, portsStrategy |-> "", entriesStrategy |-> "",
                     accPorts |-> <<>>, accEntries |-> <<>>]
          /\ pc = "validate"
          /\ errs = <<>>
          /\ verr = "pending"
          /\ CommandIdle /\ FoldIdle

SpecValidate == InitValidate /\ [][NextValidate]_vars

\* the document doc has been loaded and the program is at position at, about
\* to pass the template to a function
Loaded(doc, at) ==
    LET l == jsonUnmarshal(<<>>, <<>>, doc)
    IN /\ vt = l.res
       /\ maps = l.maps
       /\ arrays = l.arrays
       /\ heap0 = [maps |-> l.maps, arrays |-> l.arrays]
       /\ base = NIL
       /\ layers = <<>>
       /\ result = NIL
       /\ i = 0
       /\ step = [layer |-> 0, portsStrategy |-> "", entriesStrategy |-> "",
                  accPorts |-> <<>>, accEntries |-> <<>>]
       /\ pc = at
       /\ errs = <<>>
       /\ verr = "pending"
       /\ CommandIdle /\ FoldIdle

\* Validate(t) is about to be called on the loaded document doc
ValidateOn(doc) == Loaded(doc, "validate")

\* the ports a list is made of: names absent, equal and distinct; numbers and
\* host ports at and beyond both ends of the range
PortPool ==
    {PortSpec(n, p, h, "tcp") : n \in {"", "a", "b"}, p \in {0, 1, MaxPort, MaxPort + 1},
                                 h \in {0, -1, MaxPort, MaxPort + 1}}

\* the valid template with any list of at most MaxLen ports
InitValidatePorts ==
    \E n \in 0..MaxLen : \E l \in [1..n -> PortPool] :
       ValidateOn([ValidDoc EXCEPT !.Spec.Network.Ports = ListField(l)])

SpecValidatePorts == InitValidatePorts /\ [][NextValidate]_vars

\* the entries a list is made of: name, type and ref absent or set; a type
\* outside the enum; a ref that is a URI and one that is a literal value
EntryPool ==
    {SecretEntry(n, ty, r) : n \in {"", "db"}, ty \in {"", "api_key", "cert", "password"},
                             r \in {"", "vault://secret/data/db", "hunter2"}}

\* the valid template with any list of at most MaxLen secret entries
InitValidateEntries ==
    \E n \in 0..MaxLen : \E l \in [1..n -> EntryPool] :
       ValidateOn([ValidDoc EXCEPT !.Spec.Secrets.Entries = ListField(l)])

SpecValidateEntries == InitValidateEntries /\ [][NextValidate]_vars

-----------------------------------------------------------------------------
(* NewRenderer.  A Renderer is known by its dynamic type. *)

\* "&PodmanRenderer{}" and the like: structs without fields
PodmanRenderer == [type |-> "PodmanRenderer"]
KubernetesRenderer == [type |-> "KubernetesRenderer"]
SandboxRenderer == [type |-> "SandboxRenderer"]

\* variant: openshift has no case of its own and falls to the default
NewRendererNoOpenShift(target) ==
    CASE target = TargetPodman -> [renderer |-> PodmanRenderer, err |-> NIL]
      [] target = TargetKubernetes -> [renderer |-> KubernetesRenderer, err |-> NIL]
      [] target = TargetSandbox -> [renderer |-> SandboxRenderer, err |-> NIL]
      [] OTHER -> [renderer |-> NIL,
                   err |-> [fmt |-> "unsupported deployment target: %s", args |-> <<target>>]]

NewRenderer(target) ==
    CASE target = TargetPodman -> [renderer |-> PodmanRenderer, err |-> NIL]
      [] target \in {TargetKubernetes, TargetOpenShift} ->
            [renderer |-> KubernetesRenderer, err |-> NIL]
      [] target = TargetSandbox -> [renderer |-> SandboxRenderer, err |-> NIL]
      [] OTHER -> [renderer |-> NIL,
                   err |-> [fmt |-> "unsupported deployment target: %s", args |-> <<target>>]]

\* NewRenderer(vt.Spec.Runtime.DeploymentTarget)
NewRendererCall ==
    /\ pc = "dispatch"
    /\ LET r == NewRenderer(vt.Spec.Runtime.DeploymentTarget)
       IN /\ renderer' = r.renderer
          /\ rerr' = r.err
    /\ pc' = "dispatched"
    /\ UNCHANGED <<base, layers, maps, arrays, result, i, step, heap0>>
    /\ UNCHANGED validateVars
    /\ UNCHANGED <<required, bundles, wb, disk, exit, stages, flags, plan, hashes, calls>>
    /\ UNCHANGED restVars

\* the targets of the enum, none, and strings outside the enum
TargetPool ==
    validTargets \cup {"", "invalid-target", "docker", "Podman", "k8s"}

\* NewRenderer is about to be called with the target of a template: the
\* tests' valid template or the empty one, with at most one defect
InitNewRenderer ==
    \E d \in {ValidDoc, ZeroDoc} : \E k \in 0..Len(Defects) : \E tg \in TargetPool :
       Loaded([WithDefects(d, {k}, 1) EXCEPT !.Spec.Runtime.DeploymentTarget = tg],
              "dispatch")

NextNewRenderer == NewRendererCall

SpecNewRenderer == InitNewRenderer /\ [][NextNewRenderer]_vars

-----------------------------------------------------------------------------
(* Hash.  json.Marshal writes a struct field by field and a map as its      *)
(* key/value pairs: it ranges over the map, in the order the runtime picks  *)
(* for that one iteration, and sorts the pairs by key before writing them.  *)

\* the map keys the documents use, in byte order
KeyOrder == <<"admin", "dev", "env", "tier">>

Rank(k) == CHOOSE n \in 1..Len(KeyOrder) : KeyOrder[n] = k

\* the orders in which one iteration can visit the keys
IterOrders ==
    {[n \in 1..Len(KeyOrder) |-> KeyOrder[p[n]]] :
        p \in {q \in [1..Len(KeyOrder) -> 1..Len(KeyOrder)] :
                  \A a, b \in 1..Len(KeyOrder) : a # b => q[a] # q[b]}}

\* the pairs of m as one iteration in the order iter visits them
mapRange(m, iter) ==
    LET visited == SelectSeq(iter, LAMBDA k : k \in DOMAIN m)
    IN [n \in 1..Len(visited) |-> <<visited[n], m[visited[n]]>>]

\* variant: the pairs stay in the order they were visited in
keepPairs(pairs) == pairs

\* the pairs sorted by key
sortPairs(pairs) ==
    [n \in 1..Len(pairs) |->
        CHOOSE pr \in {pairs[k] : k \in 1..Len(pairs)} :
            Cardinality({k \in 1..Len(pairs) : Rank(pairs[k][1]) < Rank(pr[1])}) = n - 1]

\* variant: the pairs are written in iteration order
encodeMapUnsorted(m, iter) == mapRange(m, iter)

\* the encoding of a map
encodeMap(m, iter) == sortPairs(mapRange(m, iter))

\* the bytes json.Marshal(t) returns: the document with every map written out
jsonBytes(ms, as, t, iter) ==
    LET field(f) == [present |-> f.present,
                     v |-> IF f.present THEN encodeMap(f.v, iter) ELSE <<>>]
    IN [jsonMarshal(ms, as, t) EXCEPT
           !.Metadata.Labels = field(@),
           !.Spec.Identity.Labels = field(@),
           !.Spec.Network.Tailscale.ACLMapping = field(@)]

\* sha256.Sum256(data): 32 bytes, different for different data
Sum256(data) == [size |-> 32, of |-> data]

\* fmt.Sprintf("%x", sum): two lowercase hex digits for each byte
Sprintfx(sum) == [len |-> 2 * sum.size, lower |-> TRUE, of |-> sum.of]

Hash(ms, as, t, iter) == Sprintfx(Sum256(jsonBytes(ms, as, t, iter)))

\* Hash(result) or Hash(vt), the runtime picking the iteration order
HashCall ==
    /\ pc = "hash"
    /\ Len(hashes) < MaxHashes
    /\ \E which \in {"result", "vt"} : \E iter \in IterOrders :
          hashes' = Append(hashes,
                           [of |-> which,
                            digest |-> Hash(maps, arrays,
                                            IF which = "result" THEN result ELSE vt, iter)])
    /\ UNCHANGED resolveVars
    /\ UNCHANGED validateVars
    /\ UNCHANGED <<renderer, rerr, required, bundles, wb, disk, exit, stages, flags, plan, calls>>
    /\ UNCHANGED restVars

\* documents with label maps and ACL maps of no, one and two keys
HashDocs ==
    MetaLabelDocs \cup IdLabelDocs \cup EmptyLabelsDocs
    \cup {TailscaleDoc(TRUE, "tailscale", <<>>, acl) :
             acl \in ACLMaps \cup {[k \in {"admin", "dev"} |-> "tag:ops"]}}

\* two templates are in memory, each loaded from its own document
InitHash ==
    \E d1 \in HashDocs : \E d2 \in HashDocs :
       LET h == loadAll(<<d1, d2>>, 1, <<>>, <<>>, <<>>)
       IN /\ result = h.ts[1]
          /\ vt = h.ts[2]
          /\ maps = h.maps
          /\ arrays = h.arrays
          /\ heap0 = [maps |-> h.maps, arrays |-> h.arrays]
          /\ base = NIL
          /\ layers = <<>>
          /\ i = 0
          /\ step = [layer |-> 0, portsStrategy |-> "", entriesStrategy |-> "",
                     accPorts |-> <<>>, accEntries |-> <<>>]
          /\ pc = "hash"
          /\ errs = <<>>
          /\ verr = "pending"
          /\ CommandIdle /\ FoldIdle

NextHash == HashCall

SpecHash == InitHash /\ [][NextHash]_vars

-----------------------------------------------------------------------------
(* Render.  The three implementations are not among the sources at hand:    *)
(* they are modelled from their contract (a function of the template that   *)
(* returns the bundle, or an error and no output when a field it requires   *)
(* is unset) and from the artifacts the tests expect.                       *)

\* the artifacts of each renderer, by relative path
RenderFiles(r) ==
    CASE r = PodmanRenderer ->
            {"openclaw.yaml", "podman-compose.yml", "install.sh", "upgrade.sh", "verify.sh"}
      [] r = KubernetesRenderer ->
            {"base/openclaw.yaml", "base/deployment.yaml", "base/service.yaml",
             "base/configmap.yaml", "base/kustomization.yaml", "install.sh", "verify.sh"}
      [] r = SandboxRenderer -> {"openclaw.yaml", "run.sh"}

\* the sets of fields a renderer may require: none, or one that Validate
\* leaves optional
RequiredSets == {{}, {"runtime.image.repository"}, {"identity.region"}}

\* the bytes of an artifact: the artifact's text filled in from the template
artifact(path, ms, as, t, iter) == [path |-> path, from |-> jsonBytes(ms, as, t, iter)]

\* r.Render(t) with req the fields r requires
Render(r, req, ms, as, t, iter) ==
    IF \E f \in req : Get(t, f) = ""
    THEN [by |-> r, bundle |-> NIL,
          err |-> [fmt |-> "missing required field", args |-> <<>>]]
    ELSE [by |-> r,
          bundle |-> [SourceHash |-> Hash(ms, as, t, iter),
                      ResolvedTemplate |-> t,
                      Files |-> [path \in RenderFiles(r) |->
                                    artifact(path, ms, as, t, iter)]],
          err |-> NIL]

\* r.Render(vt) for one of the renderers, on a template Validate accepted
RenderCall ==
    /\ pc = "validated"
    /\ verr = "nil"
    /\ Len(bundles) < MaxRenders
    /\ \E r \in {PodmanRenderer, KubernetesRenderer, SandboxRenderer} :
       \E iter \in IterOrders :
          bundles' = Append(bundles, Render(r, required, maps, arrays, vt, iter))
    /\ UNCHANGED resolveVars
    /\ UNCHANGED validateVars
    /\ UNCHANGED <<renderer, rerr, required, wb, disk, exit, stages, flags, plan, hashes, calls>>
    /\ UNCHANGED restVars

\* the templates rendered: the tests' valid template with labels and with or
\* without the fields a renderer may require
RenderDocs ==
    {[ValidDoc EXCEPT !.Metadata.Labels = Field(m),
                      !.Spec.Identity.Labels = Field(n),
                      !.Spec.Identity.Region = rg,
                      !.Spec.Runtime.Image.Repository = repo] :
        m \in LabelMaps, n \in {EmptyMap, [k \in LabelKeys |-> "prod"]}, rg \in {"", "us-east-1"},
        repo \in {"", "ghcr.io/openclaw/openclaw"}}

InitRender ==
    \E d \in RenderDocs : \E req \in RequiredSets :
       LET l == jsonUnmarshal(<<>>, <<>>, d)
       IN /\ vt = l.res
          /\ maps = l.maps
          /\ arrays = l.arrays
          /\ heap0 = [maps |-> l.maps, arrays |-> l.arrays]
          /\ base = NIL
          /\ layers = <<>>
          /\ result = NIL
          /\ i = 0
          /\ step = [layer |-> 0, portsStrategy |-> "", entriesStrategy |-> "",
                     accPorts |-> <<>>, accEntries |-> <<>>]
          /\ pc = "validate"
          /\ errs = <<>>
          /\ verr = "pending"
          /\ CommandFresh /\ FoldIdle
          /\ flags = NIL
          /\ required = req

NextRender ==
    \/ ValidateCall
    \/ RenderCall

SpecRender == InitRender /\ [][NextRender]_vars

-----------------------------------------------------------------------------
(* WriteBundle and Plan *)

\* filepath.Ext of the paths of the model: from the last dot of the last
\* element on
Ext(path) ==
    CASE path \in {"install.sh", "upgrade.sh", "verify.sh", "run.sh", "bin/tool.sh"} -> ".sh"
      [] path = "run.SH" -> ".SH"
      [] path \in {"README", "hooks.sh/config"} -> ""
      [] path = "podman-compose.yml" -> ".yml"
      [] path = "bundle-manifest.json" -> ".json"
      [] OTHER -> ".yaml"

isScript(path) == Ext(path) = ".sh"

\* variant: every artifact gets the mode of a plain file
permPlain(relPath) == "0o644"

\* "perm := os.FileMode(0o644); if isScript(relPath) { perm = 0o755 }"
permOf(relPath) == IF isScript(relPath) THEN "0o755" ELSE "0o644"

\* every path of the model in ascending byte order, the order of sort.Strings
PathOrder ==
    <<"README", "base/configmap.yaml", "base/deployment.yaml", "base/kustomization.yaml",
      "base/openclaw.yaml", "base/service.yaml", "bin/tool.sh", "bundle-manifest.json",
      "hooks.sh/config", "install.sh", "openclaw.yaml", "podman-compose.yml", "run.SH",
      "run.sh", "upgrade.sh", "verify.sh">>

PathRank(path) == CHOOSE n \in 1..Len(PathOrder) : PathOrder[n] = path

\* "for relPath := range bundle.Files { files = append(files, relPath) }": the
\* keys in the order the runtime visits them, here the descending order
\* entered at the start-th key
rangeFiles(b, start) ==
    LET in(path) == path \in DOMAIN b.Files
        asc == SelectSeq(PathOrder, in)
        n == Len(asc)
    IN [k \in 1..n |-> asc[n - ((k + start - 2) % n)]]

\* the places the runtime may enter the map at
Starts(b) == 1..(IF Cardinality(DOMAIN b.Files) = 0 THEN 1 ELSE Cardinality(DOMAIN b.Files))

\* variant: the list stays in the order the keys were visited in
keepStrings(files) == files

\* sort.Strings(files)
sortStrings(files) ==
    [n \in 1..Len(files) |->
        CHOOSE path \in {files[k] : k \in 1..Len(files)} :
            Cardinality({k \in 1..Len(files) : PathRank(files[k]) < PathRank(path)}) = n - 1]

\* the *PlanSummary Plan returns
Plan(b, start) ==
    [Instance |-> b.ResolvedTemplate.Spec.Identity.InstanceName,
     Role |-> b.ResolvedTemplate.Spec.Identity.Role,
     Target |-> b.ResolvedTemplate.Spec.Runtime.DeploymentTarget,
     SourceHash |-> b.SourceHash,
     Files |-> sortStrings(rangeFiles(b, start))]

\* the BundleManifest WriteBundle builds
manifestOf(b, start) ==
    [SourceHash |-> b.SourceHash,
     Instance |-> b.ResolvedTemplate.Spec.Identity.InstanceName,
     Role |-> b.ResolvedTemplate.Spec.Identity.Role,
     Target |-> b.ResolvedTemplate.Spec.Runtime.DeploymentTarget,
     Files |-> sortStrings(rangeFiles(b, start))]

\* the directory runRender hands to WriteBundle: out joined with the
\* instance name, out alone when there is none (out is "bundle")
outDir(t) ==
    IF t.Spec.Identity.InstanceName = "" THEN <<"bundle">>
    ELSE <<"bundle", t.Spec.Identity.InstanceName>>

\* the *PathError of package os for a failed operation
PathError(op, dir, rel) == [op |-> op, path |-> dir \o <<rel>>]

\* the disk after os.WriteFile(path, content, perm): a file that exists is
\* truncated and keeps its mode, a new file gets perm (the umask is 0)
WriteFile(d, path, content, perm) ==
    [q \in DOMAIN d \cup {path} |->
        IF q = path
        THEN [content |-> content,
              perm |-> IF path \in DOMAIN d THEN d[path].perm ELSE perm]
        ELSE d[q]]

\* WriteBundle's record of a successful os.WriteFile(path, _, perm)
wrote(w, path, perm) ==
    [w EXCEPT !.wrote = [q \in DOMAIN w.wrote \cup {path} |->
                            IF q = path THEN perm ELSE w.wrote[q]]]

-----------------------------------------------------------------------------
(* The render and plan commands: runRender, runPlan and resolveFromFlags.   *)
(* A flag names a file of the registry, which holds a document, cannot be   *)
(* read, or cannot be parsed; an unset flag has the empty name.             *)

NoFile == [name |-> "", err |-> "", doc |-> ZeroDoc]
Unreadable(name) == [name |-> name, err |-> "read", doc |-> ZeroDoc]
Unparsable(name) == [name |-> name, err |-> "parse", doc |-> ZeroDoc]
FileOf(name, doc) == [name |-> name, err |-> "", doc |-> doc]

\* the files the flags name, in the order resolveFromFlags loads them
Named(f) == f.name # ""
FlagFiles == SelectSeq(<<flags.template, flags.role, flags.env, flags.vars>>, Named)
docOf(f) == f.doc

\* "if *base == "" { ...; return 1 }"
RunNoTemplate ==
    /\ pc = "run"
    /\ flags.template.name = ""
    /\ exit' = 1
    /\ pc' = "exited"
    /\ UNCHANGED <<base, layers, maps, arrays, result, i, step, heap0>>
    /\ UNCHANGED validateVars
    /\ UNCHANGED <<renderer, rerr, required, bundles, wb, disk, stages, flags, plan, hashes, calls>>
    /\ UNCHANGED restVars

\* resolveFromFlags: a file cannot be loaded, "return nil, 1", and the
\* command returns that exit code
LoadFailed ==
    /\ pc = "run"
    /\ flags.template.name # ""
    /\ \E k \in 1..Len(FlagFiles) : FlagFiles[k].err # ""
    /\ stages' = <<"load">>
    /\ exit' = 1
    /\ pc' = "exited"
    /\ UNCHANGED <<base, layers, maps, arrays, result, i, step, heap0>>
    /\ UNCHANGED validateVars
    /\ UNCHANGED <<renderer, rerr, required, bundles, wb, disk, flags, plan, hashes, calls>>
    /\ UNCHANGED restVars

\* resolveFromFlags: every file loads, the layers are appended in the order
\* role, environment, instance variables, and Resolve is called
LoadAndResolve ==
    /\ pc = "run"
    /\ flags.template.name # ""
    /\ \A k \in 1..Len(FlagFiles) : FlagFiles[k].err = ""
    /\ LET h == loadAll([k \in 1..Len(FlagFiles) |-> docOf(FlagFiles[k])],
                        1, <<>>, <<>>, <<>>)
       IN /\ base' = h.ts[1]
          /\ layers' = Tail(h.ts)
          /\ maps' = h.maps
          /\ arrays' = h.arrays
          /\ heap0' = [maps |-> h.maps, arrays |-> h.arrays]
    /\ stages' = <<"load", "Resolve">>
    /\ pc' = "call"
    /\ UNCHANGED <<result, i, step>>
    /\ UNCHANGED validateVars
    /\ UNCHANGED <<renderer, rerr, required, bundles, wb, disk, exit, flags, plan, hashes, calls>>
    /\ UNCHANGED restVars

\* "return resolved, 0", then "tmpl.Validate(resolved)" is entered
ValidateResolved ==
    /\ pc = "done"
    /\ vt' = result
    /\ stages' = Append(stages, "Validate")
    /\ pc' = "validate"
    /\ UNCHANGED <<base, layers, maps, arrays, result, i, step, heap0, errs, verr>>
    /\ UNCHANGED <<renderer, rerr, required, bundles, wb, disk, exit, flags, plan, hashes, calls>>
    /\ UNCHANGED restVars

\* "if err := tmpl.Validate(resolved); err != nil { ...; return 1 }"
ValidationFailed ==
    /\ pc = "validated"
    /\ verr # "nil"
    /\ exit' = 1
    /\ pc' = "exited"
    /\ UNCHANGED <<base, layers, maps, arrays, result, i, step, heap0>>
    /\ UNCHANGED validateVars
    /\ UNCHANGED <<renderer, rerr, required, bundles, wb, disk, stages, flags, plan, hashes, calls>>
    /\ UNCHANGED restVars

\* the target, podman when unset
targetOf(t) ==
    IF t.Spec.Runtime.DeploymentTarget = "" THEN TargetPodman
    ELSE t.Spec.Runtime.DeploymentTarget

\* variant: the renderer is selected whatever Validate returned
DispatchUnchecked ==
    /\ pc = "validated"
    /\ LET r == NewRenderer(targetOf(result))
       IN /\ renderer' = r.renderer
          /\ rerr' = r.err
          /\ exit' = IF r.err # NIL THEN 1 ELSE exit
          /\ pc' = IF r.err # NIL THEN "exited" ELSE "render"
    /\ stages' = Append(stages, "NewRenderer")
    /\ UNCHANGED <<base, layers, maps, arrays, result, i, step, heap0>>
    /\ UNCHANGED validateVars
    /\ UNCHANGED <<required, bundles, wb, disk, flags, plan, hashes, calls>>
    /\ UNCHANGED restVars

\* "renderer, err := tmpl.NewRenderer(target); if err != nil { ...; return 1 }"
Dispatch ==
    /\ pc = "validated"
    /\ verr = "nil"
    /\ LET r == NewRenderer(targetOf(result))
       IN /\ renderer' = r.renderer
          /\ rerr' = r.err
          /\ exit' = IF r.err # NIL THEN 1 ELSE exit
          /\ pc' = IF r.err # NIL THEN "exited" ELSE "render"
    /\ stages' = Append(stages, "NewRenderer")
    /\ UNCHANGED <<base, layers, maps, arrays, result, i, step, heap0>>
    /\ UNCHANGED validateVars
    /\ UNCHANGED <<required, bundles, wb, disk, flags, plan, hashes, calls>>
    /\ UNCHANGED restVars

\* "bundle, err := renderer.Render(resolved); if err != nil { ...; return 1 }"
RenderResolved ==
    /\ pc = "render"
    /\ \E iter \in IterOrders :
          LET r == Render(renderer, required, maps, arrays, result, iter)
          IN /\ bundles' = <<r>>
             /\ exit' = IF r.err # NIL THEN 1 ELSE exit
             /\ pc' = IF r.err # NIL THEN "exited"
                      ELSE IF flags.cmd = "plan" THEN "plan" ELSE "write"
    /\ stages' = Append(stages, "Render")
    /\ UNCHANGED <<base, layers, maps, arrays, result, i, step, heap0>>
    /\ UNCHANGED validateVars
    /\ UNCHANGED <<renderer, rerr, required, wb, disk, flags, plan, hashes, calls>>
    /\ UNCHANGED restVars

\* runPlan: "plan := tmpl.Plan(bundle)", the printing, "return 0"
PlanAndReturn ==
    /\ pc = "plan"
    /\ \E start \in Starts(bundles[1].bundle) : plan' = Plan(bundles[1].bundle, start)
    /\ stages' = Append(stages, "Plan")
    /\ exit' = 0
    /\ pc' = "exited"
    /\ UNCHANGED <<base, layers, maps, arrays, result, i, step, heap0>>
    /\ UNCHANGED validateVars
    /\ UNCHANGED <<renderer, rerr, required, bundles, wb, disk, flags, hashes, calls>>
    /\ UNCHANGED restVars

\* runRender calls WriteBundle, which begins with os.MkdirAll(dir, 0o755);
\* the file system lets it succeed or not
WriteBundleBegin ==
    /\ pc = "write"
    /\ stages' = Append(stages, "WriteBundle")
    /\ \E ok \in BOOLEAN :
          /\ wb' = IF ok THEN wb
                   ELSE [wb EXCEPT !.err =
                            [fmt |-> "create output directory: %w",
                             args |-> <<PathError("mkdir", outDir(bundles[1].bundle.ResolvedTemplate), "")>>]]
          /\ exit' = IF ok THEN exit ELSE 1
          /\ pc' = IF ok THEN "files" ELSE "exited"
    /\ UNCHANGED <<base, layers, maps, arrays, result, i, step, heap0>>
    /\ UNCHANGED validateVars
    /\ UNCHANGED <<renderer, rerr, required, bundles, disk, flags, plan, hashes, calls>>
    /\ UNCHANGED restVars

\* one iteration of "for relPath, content := range bundle.Files", on the key
\* the runtime visits next: the directory of the file cannot be made, or the
\* file cannot be written, and WriteBundle returns the error (runRender 1);
\* or the file is written
WriteArtifact ==
    /\ pc = "files"
    /\ LET b == bundles[1].bundle
           dir == outDir(b.ResolvedTemplate)
       IN \E relPath \in DOMAIN b.Files \ DOMAIN wb.wrote :
          \E outcome \in {"mkdir", "write", "ok"} :
             /\ disk' = IF outcome = "ok"
                        THEN WriteFile(disk, relPath, b.Files[relPath], permOf(relPath))
                        ELSE disk
             /\ wb' = CASE outcome = "ok" -> wrote(wb, relPath, permOf(relPath))
                        [] outcome = "mkdir" ->
                              [wb EXCEPT !.err =
                                  [fmt |-> "create directory for %s: %w",
                                   args |-> <<relPath, PathError("mkdir", dir, relPath)>>]]
                        [] outcome = "write" ->
                              [wb EXCEPT !.err =
                                  [fmt |-> "write %s: %w",
                                   args |-> <<relPath, PathError("open", dir, relPath)>>]]
             /\ exit' = IF outcome = "ok" THEN exit ELSE 1
             /\ pc' = IF outcome = "ok" THEN "files" ELSE "exited"
    /\ UNCHANGED <<base, layers, maps, arrays, result, i, step, heap0>>
    /\ UNCHANGED validateVars
    /\ UNCHANGED <<renderer, rerr, required, bundles, stages, flags, plan, hashes, calls>>
    /\ UNCHANGED restVars

\* variant: the manifest may be written while artifacts are still to come
WriteManifestEarly ==
    /\ pc = "files"
    /\ LET b == bundles[1].bundle
       IN \E start \in Starts(b) :
             /\ disk' = WriteFile(disk, "bundle-manifest.json", manifestOf(b, start), "0o644")
             /\ wb' = wrote(wb, "bundle-manifest.json", "0o644")
             /\ exit' = IF DOMAIN b.Files \subseteq DOMAIN wb.wrote THEN 0 ELSE exit
             /\ pc' = IF DOMAIN b.Files \subseteq DOMAIN wb.wrote THEN "exited" ELSE "files"
    /\ UNCHANGED <<base, layers, maps, arrays, result, i, step, heap0>>
    /\ UNCHANGED validateVars
    /\ UNCHANGED <<renderer, rerr, required, bundles, stages, flags, plan, hashes, calls>>
    /\ UNCHANGED restVars

\* after the loop: the manifest is built and written with mode 0o644 and
\* WriteBundle returns nil (runRender 0), or the write fails and WriteBundle
\* returns the error (runRender 1)
WriteManifest ==
    /\ pc = "files"
    /\ DOMAIN bundles[1].bundle.Files \subseteq DOMAIN wb.wrote
    /\ LET b == bundles[1].bundle
           dir == outDir(b.ResolvedTemplate)
       IN \E start \in Starts(b) : \E ok \in BOOLEAN :
             /\ disk' = IF ok
                        THEN WriteFile(disk, "bundle-manifest.json",
                                       manifestOf(b, start), "0o644")
                        ELSE disk
             /\ wb' = IF ok THEN wrote(wb, "bundle-manifest.json", "0o644")
                      ELSE [wb EXCEPT !.err =
                               [fmt |-> "write manifest: %w",
                                args |-> <<PathError("open", dir, "bundle-manifest.json")>>]]
             /\ exit' = IF ok THEN 0 ELSE 1
    /\ pc' = "exited"
    /\ UNCHANGED <<base, layers, maps, arrays, result, i, step, heap0>>
    /\ UNCHANGED validateVars
    /\ UNCHANGED <<renderer, rerr, required, bundles, stages, flags, plan, hashes, calls>>
    /\ UNCHANGED restVars

\* the documents of the registry
BaseFiles ==
    {FileOf("base", [ValidDoc EXCEPT !.Spec.Runtime.DeploymentTarget = tg]) :
        tg \in validTargets \cup {""}}
    \cup {FileOf("base", [ValidDoc EXCEPT !.Metadata.Name = ""]),
          FileOf("base", [ValidDoc EXCEPT !.Spec.Identity.InstanceName = ""]),
          Unreadable("base"), Unparsable("base"), NoFile}

RoleFiles ==
    {NoFile, Unreadable("worker"),
     FileOf("worker", [ZeroDoc EXCEPT !.Kind = KindRoleOverlay,
                                      !.Spec.Identity.Role = RoleWorker])}

EnvFiles ==
    {NoFile, Unparsable("prod"),
     FileOf("prod", [ZeroDoc EXCEPT !.Kind = KindEnvironmentOverlay,
                                    !.Spec.Runtime.DeploymentTarget = TargetSandbox]),
     FileOf("prod", [ZeroDoc EXCEPT !.Kind = KindEnvironmentOverlay,
                                    !.Spec.Observability.Logging.Level = "loud"])}

VarsFiles ==
    {NoFile, Unreadable("vars.yaml"),
     FileOf("vars.yaml",
            [ZeroDoc EXCEPT !.Kind = KindInstanceVars,
                            !.Spec.Identity.InstanceName = "gw-2",
                            !.Spec.Runtime.Image.Repository = "ghcr.io/openclaw/openclaw"])}

\* "lobstertank render" or "lobstertank plan" has parsed its flags
InitCommand ==
    /\ \E cmd \in {"render", "plan"} :
       \E b \in BaseFiles : \E r \in RoleFiles : \E e \in EnvFiles : \E v \in VarsFiles :
          flags = [cmd |-> cmd, template |-> b, role |-> r, env |-> e, vars |-> v]
    /\ required \in RequiredSets
    /\ CommandFresh /\ FoldIdle
    /\ base = NIL
    /\ layers = <<>>
    /\ maps = <<>>
    /\ arrays = <<>>
    /\ heap0 = [maps |-> <<>>, arrays |-> <<>>]
    /\ result = NIL
    /\ i = 0
    /\ step = [layer |-> 0, portsStrategy |-> "", entriesStrategy |-> "",
               accPorts |-> <<>>, accEntries |-> <<>>]
    /\ pc = "run"
    /\ vt = ZeroTemplate
    /\ errs = <<>>
    /\ verr = "pending"

NextCommand ==
    \/ RunNoTemplate
    \/ LoadFailed
    \/ LoadAndResolve
    \/ ResolveBegin
    \/ MergeLayer
    \/ ResolveReturn
    \/ ValidateResolved
    \/ ValidateCall
    \/ ValidationFailed
    \/ Dispatch
    \/ RenderResolved
    \/ PlanAndReturn
    \/ WriteBundleBegin
    \/ WriteArtifact
    \/ WriteManifest

SpecCommand == InitCommand /\ [][NextCommand]_vars

-----------------------------------------------------------------------------
(* Plan and WriteBundle called on one bundle, into a directory that is new  *)
(* or holds files of an earlier run                                         *)

\* Plan(bundle), at any moment
PlanBundle ==
    /\ pc \in {"write", "files", "exited"}
    /\ plan = NIL
    /\ \E start \in Starts(bundles[1].bundle) : plan' = Plan(bundles[1].bundle, start)
    /\ UNCHANGED resolveVars
    /\ UNCHANGED validateVars
    /\ UNCHANGED <<renderer, rerr, required, bundles, wb, disk, exit, stages, flags, hashes, calls>>
    /\ UNCHANGED restVars

\* the key sets of the bundles: those of the three renderers, none, and paths
\* with other extensions, in sub-directories, and in a directory named like
\* a script
FileSets ==
    {RenderFiles(PodmanRenderer), RenderFiles(KubernetesRenderer),
     RenderFiles(SandboxRenderer), {},
     {"README", "run.SH", "hooks.sh/config", "bin/tool.sh"}}

\* what the directory holds before the call
OldDisks ==
    {<<>>,
     [path \in {"install.sh", "openclaw.yaml", "bundle-manifest.json"} |->
         [content |-> "old", perm |-> "0o600"]]}

InitBundle ==
    /\ disk \in OldDisks
    /\ \E F \in FileSets : \E name \in {"", "gw-1"} : \E tg \in {"", TargetPodman} :
          LET l == jsonUnmarshal(<<>>, <<>>,
                      [ValidDoc EXCEPT !.Spec.Identity.InstanceName = name,
                                       !.Spec.Runtime.DeploymentTarget = tg])
          IN /\ maps = l.maps
             /\ arrays = l.arrays
             /\ heap0 = [maps |-> l.maps, arrays |-> l.arrays, disk |-> disk]
             /\ bundles = <<[by |-> NIL, err |-> NIL,
                             bundle |-> [SourceHash |-> Hash(l.maps, l.arrays, l.res, KeyOrder),
                                         ResolvedTemplate |-> l.res,
                                         Files |-> [path \in F |->
                                                       [path |-> path, from |-> "bytes"]]]]>>
    /\ pc = "write"
    /\ base = NIL /\ layers = <<>> /\ result = NIL /\ i = 0
    /\ step = [layer |-> 0, portsStrategy |-> "", entriesStrategy |-> "",
               accPorts |-> <<>>, accEntries |-> <<>>]
    /\ vt = ZeroTemplate /\ errs = <<>> /\ verr = "pending"
    /\ renderer = NIL /\ rerr = NIL /\ required = {} /\ wb = WbIdle
    /\ exit = -1 /\ stages = <<>> /\ flags = NIL /\ plan = NIL /\ hashes = <<>>
    /\ calls = <<>>
    /\ ServiceIdle /\ FoldIdle

NextBundle ==
    \/ PlanBundle
    \/ WriteBundleBegin
    \/ WriteArtifact
    \/ WriteManifest

SpecBundle == InitBundle /\ [][NextBundle]_vars

-----------------------------------------------------------------------------
(* Resolve calls running side by side: each goroutine calls Resolve with    *)
(* its own base and the same layer documents.  The calls share the heap;    *)
(* each has its own locals.  A step is the copy of the base, one iteration  *)
(* of the loop, or the return.                                              *)

\* call c copies its base: deepCopy(base), then the forced apiVersion and kind
GoResolveBegin(c) ==
    /\ calls[c].pc = "call"
    /\ calls[c].base # NIL
    /\ LET cp == deepCopy(maps, arrays, calls[c].base)
       IN /\ calls' = [calls EXCEPT
                          ![c].result = [cp.res EXCEPT !.APIVersion = APIVersion,
                                                       !.Kind = KindEncodingTemplate],
                          ![c].i = 1,
                          ![c].pc = "loop"]
          /\ maps' = cp.maps
          /\ arrays' = cp.arrays
    /\ UNCHANGED <<base, layers, result, i, pc, step, heap0>>
    /\ UNCHANGED validateVars
    /\ UNCHANGED <<renderer, rerr, required, bundles, wb, disk, exit, stages, flags, plan, hashes>>
    /\ UNCHANGED restVars

\* call c runs one iteration of its loop: mergeSpec, then mergeMetadataLabels
GoMergeLayer(c) ==
    /\ calls[c].pc = "loop"
    /\ calls[c].i <= Len(layers)
    /\ layers[calls[c].i] # NIL
    /\ LET layer == layers[calls[c].i]
           s1 == mergeSpec([res |-> calls[c].result, maps |-> maps, arrays |-> arrays],
                           layer.Spec)
           s2 == mergeMetadataLabels(s1, layer)
       IN /\ calls' = [calls EXCEPT ![c].result = s2.res, ![c].i = @ + 1]
          /\ maps' = s2.maps
          /\ arrays' = s2.arrays
    /\ UNCHANGED <<base, layers, result, i, pc, step, heap0>>
    /\ UNCHANGED validateVars
    /\ UNCHANGED <<renderer, rerr, required, bundles, wb, disk, exit, stages, flags, plan, hashes>>
    /\ UNCHANGED restVars

\* call c returns: "return result, nil"
GoResolveReturn(c) ==
    /\ calls[c].pc = "loop"
    /\ calls[c].i > Len(layers)
    /\ calls' = [calls EXCEPT ![c].pc = "done"]
    /\ UNCHANGED resolveVars
    /\ UNCHANGED validateVars
    /\ UNCHANGED <<renderer, rerr, required, bundles, wb, disk, exit, stages, flags, plan, hashes>>
    /\ UNCHANGED restVars

\* the maps the next iteration of call c assigns to ("(*dst)[k] = v", dst
\* already made) and the maps it ranges over
assigned(c) ==
    LET res == calls[c].result
        layer == layers[calls[c].i]
    IN {r \in {res.Metadata.Labels} :
           MapLen(maps, layer.Metadata.Labels) > 0 /\ r # 0}
       \cup {r \in {res.Spec.Identity.Labels} :
                MapLen(maps, layer.Spec.Identity.Labels) > 0 /\ r # 0}
       \cup {r \in {res.Spec.Network.Tailscale.ACLMapping} :
                /\ layer.Spec.Network.Tailscale.set
                /\ res.Spec.Network.Tailscale.set
                /\ MapLen(maps, layer.Spec.Network.Tailscale.ACLMapping) > 0
                /\ r # 0}

ranged(c) ==
    LET res == calls[c].result
        layer == layers[calls[c].i]
    IN {r \in {layer.Metadata.Labels, layer.Spec.Identity.Labels} : MapLen(maps, r) > 0}
       \cup {r \in {layer.Spec.Network.Tailscale.ACLMapping} :
                /\ layer.Spec.Network.Tailscale.set
                /\ res.Spec.Network.Tailscale.set
                /\ MapLen(maps, r) > 0}

\* both calls are inside an iteration and one assigns to a map the other
\* assigns to or ranges over: the accesses are not ordered, and the runtime
\* may find the map being written and end the process ("fatal error:
\* concurrent map writes", "concurrent map iteration and map write")
ConcurrentMapWrites ==
    /\ \A c \in 1..2 : calls[c].pc = "loop" /\ calls[c].i <= Len(layers)
    /\ \E c \in 1..2 :
          assigned(c) \cap (assigned(3 - c) \cup ranged(3 - c)) # {}
    /\ calls' = [c \in 1..2 |-> [calls[c] EXCEPT !.pc = "fatal"]]
    /\ UNCHANGED resolveVars
    /\ UNCHANGED validateVars
    /\ UNCHANGED <<renderer, rerr, required, bundles, wb, disk, exit, stages, flags, plan, hashes>>
    /\ UNCHANGED restVars

\* bases that differ from each other, and the layers the calls share
GoBases ==
    {[ZeroDoc EXCEPT !.Metadata.Name = "a"],
     [TailscaleDoc(TRUE, "tailscale", <<"tag:base">>, [k \in {"admin"} |-> "tag:root"])
         EXCEPT !.Metadata.Name = "b"],
     [PortsDoc(<<PortSpec("http", 8080, 0, "tcp")>>, "") EXCEPT !.Metadata.Name = "c"]}

GoLayers ==
    {ZeroDoc,
     TailscaleDoc(TRUE, "", <<>>, [k \in {"admin"} |-> "tag:ops"]),
     TailscaleDoc(FALSE, "headscale", <<"tag:gw">>, [k \in {"dev"} |-> "tag:dev"]),
     MetaLabelsDoc([k \in {"env"} |-> "prod"]),
     PortsDoc(<<PortSpec("https", 443, 0, "")>>, MergeStrategyAppend),
     PortsDoc(<<PortSpec("http", 80, 0, "")>>, "")}

\* two goroutines are about to call Resolve(b1, ls...) and Resolve(b2, ls...)
InitGo ==
    /\ \E b1 \in GoBases : \E b2 \in GoBases \ {b1} :
       \E n \in 1..MaxLayers : \E ls \in [1..n -> GoLayers] :
          LET h == loadAll(<<b1, b2>> \o ls, 1, <<>>, <<>>, <<>>)
          IN /\ calls = <<[base |-> h.ts[1], result |-> NIL, i |-> 0, pc |-> "call"],
                          [base |-> h.ts[2], result |-> NIL, i |-> 0, pc |-> "call"]>>
             /\ layers = Tail(Tail(h.ts))
             /\ maps = h.maps
             /\ arrays = h.arrays
             /\ heap0 = [maps |-> h.maps, arrays |-> h.arrays]
    /\ base = NIL
    /\ result = NIL
    /\ i = 0
    /\ pc = "go"
    /\ step = [layer |-> 0, portsStrategy |-> "", entriesStrategy |-> "",
               accPorts |-> <<>>, accEntries |-> <<>>]
    /\ vt = ZeroTemplate /\ errs = <<>> /\ verr = "pending"
    /\ renderer = NIL /\ rerr = NIL /\ required = {} /\ bundles = <<>> /\ disk = <<>>
    /\ wb = WbIdle /\ ServiceIdle /\ FoldIdle
    /\ exit = -1 /\ stages = <<>> /\ flags = NIL /\ plan = NIL /\ hashes = <<>>

NextGo ==
    \/ \E c \in 1..2 :
          \/ GoResolveBegin(c)
          \/ GoMergeLayer(c)
          \/ GoResolveReturn(c)
    \/ ConcurrentMapWrites

SpecGo == InitGo /\ [][NextGo]_vars

-----------------------------------------------------------------------------
(* What the claims speak about *)

\* base followed by the non-nil layers 1..k: the sequence that has been merged
RECURSIVE NonNil(_)
NonNil(ts) ==
    IF ts = <<>> THEN <<>>
    ELSE IF Head(ts) = NIL THEN NonNil(Tail(ts))
    ELSE <<Head(ts)>> \o NonNil(Tail(ts))

Merged(k) == <<base>> \o NonNil(SubSeq(layers, 1, k))

\* deep value of an input as it was when Resolve was called, and as it is now
Was(t) == Deep(heap0.maps, heap0.arrays, t)
Now(t) == Deep(maps, arrays, t)

\* the last non-empty value among vals, "" if there is none
RECURSIVE LastNonEmpty(_)
LastNonEmpty(vals) ==
    IF vals = <<>> THEN ""
    ELSE IF vals[Len(vals)] # "" THEN vals[Len(vals)]
    ELSE LastNonEmpty(SubSeq(vals, 1, Len(vals) - 1))

Returned == pc = "done"

\* C1: Resolve leaves every layer passed to it unchanged: each layer is
\* deep-equal to its value before the call.
C1_LayersUnchanged ==
    \A k \in 1..Len(layers) : Now(layers[k]) = Was(layers[k])

\* C2: Resolve never changes any field of base: base is deep-equal before
\* and after the call, whatever the layers.
C2_BaseUnchanged == Now(base) = Was(base)

\* a call has returned whose result differs from its base in a label map, a
\* port list and the like, while a layer was merged onto the copy
C2_Witness ==
    /\ Returned
    /\ Len(layers) > 0
    /\ base.Metadata.Labels # 0
    /\ MapVal(maps, result.Metadata.Labels) # MapVal(maps, base.Metadata.Labels)

\* C3: last non-empty wins for every scalar string of the spec over base,
\* layer1..layerN; a flag is true iff some element sets it.
C3_LastNonEmptyWins ==
    Returned =>
        LET ms == Merged(Len(layers)) IN
        /\ \A f \in ScalarFields :
              Get(result, f) = LastNonEmpty([k \in 1..Len(ms) |-> Get(ms[k], f)])
        /\ \A f \in FlagFields :
              Get(result, f) = (\E k \in 1..Len(ms) : Get(ms[k], f))

\* a layer's empty value came after a layer's non-empty one, which survived
C3_Witness ==
    /\ Returned
    /\ Len(layers) = 2
    /\ layers[1] # NIL /\ layers[2] # NIL
    /\ layers[1].Spec.Identity.Region = "a"
    /\ layers[2].Spec.Identity.Region = ""
    /\ base.Spec.Identity.Region = "b"
    /\ result.Spec.Identity.Region = "a"

\* the value a merge of the lists acc and inc under a strategy yields
MergedList(acc, inc, strategy) ==
    LET r == mergePortSlice(<<acc, inc>>, [arr |-> 1, len |-> Len(acc)],
                            [arr |-> 2, len |-> Len(inc)], strategy)
    IN Elems(r.arrays, r.slice)

\* the strategy tags of base, layer1..layerk
PortTags(k) == [j \in 1..Len(Merged(k)) |-> Merged(k)[j].Spec.Network.PortsMergeStrategy]
EntryTags(k) == [j \in 1..Len(Merged(k)) |-> Merged(k)[j].Spec.Secrets.EntriesMergeStrategy]

OrReplace(tag) == IF tag = "" THEN MergeStrategyReplace ELSE tag

\* the step that merged layer step.layer has just been taken
Stepped == step.layer > 0 /\ i = step.layer + 1

StepLayer == layers[step.layer]
StepPorts == Elems(arrays, StepLayer.Spec.Network.Ports)
StepEntries == Elems(arrays, StepLayer.Spec.Secrets.Entries)
ResultPorts == Elems(arrays, result.Spec.Network.Ports)
ResultEntries == Elems(arrays, result.Spec.Secrets.Entries)

\* C4: the strategy of a merge step is the layer's own tag if non-empty, else
\* the tag carried by the accumulated result (the last non-empty tag of base
\* and the earlier layers), else replace; the layer's non-empty tag is
\* recorded in the result.
C4_EffectiveStrategy ==
    Stepped =>
        LET k == step.layer IN
        /\ step.portsStrategy = OrReplace(LastNonEmpty(PortTags(k)))
        /\ step.entriesStrategy = OrReplace(LastNonEmpty(EntryTags(k)))
        /\ result.Spec.Network.PortsMergeStrategy = LastNonEmpty(PortTags(k))
        /\ result.Spec.Secrets.EntriesMergeStrategy = LastNonEmpty(EntryTags(k))
        /\ StepPorts # <<>> =>
              ResultPorts = MergedList(step.accPorts, StepPorts,
                                       OrReplace(LastNonEmpty(PortTags(k))))
        /\ StepEntries # <<>> =>
              ResultEntries = MergedList(step.accEntries, StepEntries,
                                         OrReplace(LastNonEmpty(EntryTags(k))))

\* a layer without a tag was merged under the tag an earlier layer recorded,
\* which differs from the tag of the base
C4_Witness ==
    /\ Stepped
    /\ step.layer = 2
    /\ StepLayer.Spec.Network.PortsMergeStrategy = ""
    /\ layers[1].Spec.Network.PortsMergeStrategy = MergeStrategyAppend
    /\ base.Spec.Network.PortsMergeStrategy = MergeStrategyUnion
    /\ StepPorts # <<>>
    /\ step.portsStrategy = MergeStrategyAppend
    /\ Len(ResultPorts) = Len(step.accPorts) + Len(StepPorts)

\* acc followed by the entries of inc whose key is not in the list built so far
RECURSIVE UnionOf(_, _)
UnionOf(acc, inc) ==
    IF inc = <<>> THEN acc
    ELSE IF \E k \in 1..Len(acc) : acc[k].Name = Head(inc).Name
    THEN UnionOf(acc, Tail(inc))
    ELSE UnionOf(Append(acc, Head(inc)), Tail(inc))

\* C5: under union the merged list is the accumulated list followed by exactly
\* the incoming entries whose key is not already in the list built so far.
C5_Union ==
    Stepped =>
        /\ (step.portsStrategy = MergeStrategyUnion /\ StepPorts # <<>>) =>
              ResultPorts = UnionOf(step.accPorts, StepPorts)
        /\ (step.entriesStrategy = MergeStrategyUnion /\ StepEntries # <<>>) =>
              ResultEntries = UnionOf(step.accEntries, StepEntries)

\* C6: under replace (also the strategy when nothing carries a tag), after
\* merging a layer with a non-empty list the accumulated list is that list.
C6_Replace ==
    Stepped =>
        /\ (step.portsStrategy = MergeStrategyReplace /\ StepPorts # <<>>) =>
              ResultPorts = StepPorts
        /\ (step.entriesStrategy = MergeStrategyReplace /\ StepEntries # <<>>) =>
              ResultEntries = StepEntries

\* a layer's list replaced a list that held other entries
C6_Witness ==
    /\ Stepped
    /\ step.portsStrategy = MergeStrategyReplace
    /\ StepLayer.Spec.Network.PortsMergeStrategy = ""
    /\ Len(step.accPorts) > 0
    /\ StepPorts # <<>>
    /\ ResultPorts = StepPorts
    /\ \E k \in 1..Len(step.accPorts) :
          \A j \in 1..Len(ResultPorts) : ResultPorts[j] # step.accPorts[k]

\* C7: under append the merged list is the accumulated list followed by the
\* whole incoming list, entries with the same name all kept.
C7_Append ==
    Stepped =>
        /\ (step.portsStrategy = MergeStrategyAppend /\ StepPorts # <<>>) =>
              ResultPorts = step.accPorts \o StepPorts
        /\ (step.entriesStrategy = MergeStrategyAppend /\ StepEntries # <<>>) =>
              ResultEntries = step.accEntries \o StepEntries

\* a list was appended to one that already held one of its names
C7_Witness ==
    /\ Stepped
    /\ step.entriesStrategy = MergeStrategyAppend
    /\ StepEntries # <<>>
    /\ \E k \in 1..Len(step.accEntries) : step.accEntries[k].Name = StepEntries[1].Name
    /\ Len(ResultEntries) = Len(step.accEntries) + Len(StepEntries)

\* the label maps of base, layer1..layerN as they were passed
MetaLabelsOf(k) == Was(Merged(Len(layers))[k]).Metadata.Labels.v
IdLabelsOf(k) == Was(Merged(Len(layers))[k]).Spec.Identity.Labels.v

\* m has the union of the key sets of L(1..n), each key with the value of the
\* last element that contains it
KeyByKey(m, L(_), n) ==
    /\ DOMAIN m = UNION {DOMAIN L(k) : k \in 1..n}
    /\ \A key \in DOMAIN m :
          \E k \in 1..n :
             /\ key \in DOMAIN L(k)
             /\ \A j \in (k + 1)..n : key \notin DOMAIN L(j)
             /\ m[key] = L(k)[key]

\* C8: metadata labels and identity labels merge key by key over base,
\* layer1..layerN: union of the key sets, the last element's value per key.
C8_LabelsMerge ==
    Returned =>
        LET n == Len(Merged(Len(layers))) IN
        /\ KeyByKey(MapVal(maps, result.Metadata.Labels).v, MetaLabelsOf, n)
        /\ KeyByKey(MapVal(maps, result.Spec.Identity.Labels).v, IdLabelsOf, n)

\* a key of the base survived a layer that overrode another key
C8_Witness ==
    /\ Returned
    /\ Len(layers) = 1
    /\ result.Spec.Identity.Labels # 0
    /\ base.Spec.Identity.Labels # 0
    /\ layers[1].Spec.Identity.Labels # 0
    /\ DOMAIN maps[base.Spec.Identity.Labels] = {"env", "tier"}
    /\ DOMAIN heap0.maps[layers[1].Spec.Identity.Labels] = {"env"}
    /\ maps[base.Spec.Identity.Labels]["env"] # heap0.maps[layers[1].Spec.Identity.Labels]["env"]
    /\ maps[result.Spec.Identity.Labels]["tier"] = maps[base.Spec.Identity.Labels]["tier"]
    /\ maps[result.Spec.Identity.Labels]["env"] = heap0.maps[layers[1].Spec.Identity.Labels]["env"]

\* C9: every template a successful Resolve returns has kind EncodingTemplate
\* and the fixed apiVersion, whatever the kinds of base and layers.
C9_ResolvedKind ==
    Returned => /\ result.Kind = KindEncodingTemplate
                /\ result.APIVersion = APIVersion

\* a base that is a RoleOverlay of another schema version was resolved with
\* an InstanceVars layer
C9_Witness ==
    /\ Returned
    /\ base.Kind = KindRoleOverlay
    /\ base.APIVersion = "v0"
    /\ Len(layers) > 0
    /\ layers[1] # NIL
    /\ layers[1].Kind = KindInstanceVars
    /\ result.Kind = KindEncodingTemplate

-----------------------------------------------------------------------------
(* The rules of the validator, stated on the document *)

Rule(fmt, idx) == [fmt |-> fmt, idx |-> idx]
If(cond, rule) == IF cond THEN {rule} ELSE {}

VtPorts == Elems(arrays, vt.Spec.Network.Ports)
VtEntries == Elems(arrays, vt.Spec.Secrets.Entries)

InPortRange(n) == n >= 1 /\ n <= MaxPort

PortRules(k) ==
    LET p == VtPorts[k] IN
    If(p.Name = "", Rule("network.ports[%d].name is required", k - 1))
    \cup If(~InPortRange(p.Port),
            Rule("network.ports[%d].port %d is out of range (1-65535)", k - 1))
    \cup If(p.HostPort # 0 /\ ~InPortRange(p.HostPort),
            Rule("network.ports[%d].host_port %d is out of range (1-65535)", k - 1))
    \cup If(\E j \in 1..(k - 1) : VtPorts[j].Name = p.Name,
            Rule("network.ports[%d].name %q duplicates ports[%d]", k - 1))
    \cup If(\E j \in 1..(k - 1) : VtPorts[j].Port = p.Port,
            Rule("network.ports[%d].port %d conflicts with port named %q", k - 1))

EntryRules(k) ==
    LET e == VtEntries[k] IN
    If(e.Name = "", Rule("secrets.entries[%d].name is required", k - 1))
    \cup If(e.Type = "", Rule("secrets.entries[%d].type is required", k - 1))
    \cup If(e.Type # "" /\ e.Type \notin validSecretTypes,
            Rule("secrets.entries[%d].type %q is not recognized", k - 1))
    \cup If(e.Ref = "",
            Rule("secrets.entries[%d].ref is required (must be a URI reference, never a plaintext value)",
                 k - 1))

Unknown(x, set) == x # "" /\ x \notin set

\* the rules vt violates
Violated ==
    If(vt.APIVersion = "", Rule("apiVersion is required", -1))
    \cup If(vt.Kind = "", Rule("kind is required", -1))
    \cup If(vt.Metadata.Name = "", Rule("metadata.name is required", -1))
    \cup If(Unknown(vt.Spec.Identity.Role, validRoles),
            Rule("identity.role %q is not a recognized role (valid: %s)", -1))
    \cup If(Unknown(vt.Spec.Runtime.DeploymentTarget, validTargets),
            Rule("runtime.deployment_target %q is not recognized (valid: %s)", -1))
    \cup If(vt.Spec.Network.BindAddress # "" /\ ~ParseIP(vt.Spec.Network.BindAddress),
            Rule("network.bind_address %q is not a valid IP address", -1))
    \cup UNION {PortRules(k) : k \in 1..Len(VtPorts)}
    \cup If(Unknown(vt.Spec.Network.PortsMergeStrategy, validMergeStrategies),
            Rule("network.ports_merge_strategy %q is invalid (valid: replace, append, union)", -1))
    \cup If(Unknown(vt.Spec.Secrets.Provider, validSecretsProviders),
            Rule("secrets.provider %q is not recognized (valid: builtin, vault, k8s_secrets)", -1))
    \cup UNION {EntryRules(k) : k \in 1..Len(VtEntries)}
    \cup If(Unknown(vt.Spec.Secrets.EntriesMergeStrategy, validMergeStrategies),
            Rule("secrets.entries_merge_strategy %q is invalid", -1))
    \cup If(Unknown(vt.Spec.Observability.Logging.Level, validLogLevels),
            Rule("observability.logging.level %q is invalid (valid: debug, info, warn, error)", -1))
    \cup If(Unknown(vt.Spec.Observability.Logging.Format, {"json", "text"}),
            Rule("observability.logging.format %q is invalid (valid: json, text)", -1))
    \cup If(Unknown(vt.Spec.Policy.UpdateChannel, validUpdateChannels),
            Rule("policy.update_channel %q is invalid (valid: stable, beta, nightly, pinned)", -1))
    \cup If(vt.Spec.Identity.Role = RoleGateway /\ Len(VtPorts) = 0,
            Rule("gateway role requires at least one network port", -1))

\* errs has an entry for the rule
Reported(rule) ==
    \E k \in 1..Len(errs) :
        /\ errs[k].fmt = rule.fmt
        /\ rule.idx >= 0 => errs[k].args[1] = rule.idx

Validated == pc = "validated"

\* C10: Validate never stops at the first violation: the error it returns
\* lists at least one entry for each violated rule, and it returns nil exactly
\* when no rule is violated (never an error with an empty list).
C10_CollectsAll ==
    Validated =>
        /\ \A rule \in Violated : Reported(rule)
        /\ (verr = "nil") <=> (Violated = {})
        /\ (verr = "ValidationError") <=> (Len(errs) > 0)
        /\ verr \in {"nil", "ValidationError"}

\* the template without apiVersion and kind and with an invalid role was
\* validated, and two defective ports were both reported
C10_Witness ==
    /\ Validated
    /\ vt.APIVersion = "" /\ vt.Kind = "" /\ vt.Spec.Identity.Role = "not-a-role"
    /\ Len(errs) >= 3
    /\ \E a, b, c \in 1..Len(errs) :
          /\ errs[a].fmt = "apiVersion is required"
          /\ errs[b].fmt = "kind is required"
          /\ errs[c].fmt = "identity.role %q is not a recognized role (valid: %s)"
          /\ errs[c].args[1] = "not-a-role"

-----------------------------------------------------------------------------
(* Ports of a validated template *)

\* C11: if Validate returns nil, every port has a name, a number in
\* [1,65535], a host port that is 0 or in [1,65535], and names and numbers
\* are pairwise distinct; a list with two ports of one name or of one number
\* is rejected.
C11_PortsOfCleanTemplate ==
    Validated =>
        /\ verr = "nil" =>
              /\ \A k \in 1..Len(VtPorts) :
                    /\ VtPorts[k].Name # ""
                    /\ InPortRange(VtPorts[k].Port)
                    /\ VtPorts[k].HostPort = 0 \/ InPortRange(VtPorts[k].HostPort)
              /\ \A j, k \in 1..Len(VtPorts) :
                    j # k => /\ VtPorts[j].Name # VtPorts[k].Name
                             /\ VtPorts[j].Port # VtPorts[k].Port
        /\ (\E j, k \in 1..Len(VtPorts) :
               j # k /\ (VtPorts[j].Name = VtPorts[k].Name \/ VtPorts[j].Port = VtPorts[k].Port))
           => verr = "ValidationError"

\* a list of two ports at the two ends of the range was accepted, one with a
\* host port
C11_Witness ==
    /\ Validated
    /\ verr = "nil"
    /\ Len(VtPorts) = 2
    /\ VtPorts[1].Port = 1 /\ VtPorts[2].Port = MaxPort
    /\ VtPorts[2].HostPort = MaxPort

-----------------------------------------------------------------------------
(* Secret entries of a validated template *)

\* a URI reference: "builtin://...", "vault://...", "k8s://ns/secret/key"
IsURIReference(x) ==
    x \in {"builtin://api-key", "builtin://new", "builtin://tls", "builtin://node",
           "vault://db", "vault://secret/data/db", "k8s://ns/tls/crt"}

\* C12: if Validate returns nil, every secret entry has a name, a type of the
\* closed set and a ref that is a non-empty URI reference, never a plaintext
\* value; an entry with an empty ref is reported as "ref is required".
C12_EntriesOfCleanTemplate ==
    Validated =>
        /\ verr = "nil" =>
              \A k \in 1..Len(VtEntries) :
                 /\ VtEntries[k].Name # ""
                 /\ VtEntries[k].Type \in {"api_key", "node_key", "oauth_cred", "db_cred", "cert"}
                 /\ VtEntries[k].Ref # ""
                 /\ IsURIReference(VtEntries[k].Ref)
        /\ \A k \in 1..Len(VtEntries) :
              VtEntries[k].Ref = "" =>
                 Reported(Rule("secrets.entries[%d].ref is required (must be a URI reference, never a plaintext value)",
                               k - 1))

-----------------------------------------------------------------------------
(* The cross-field rule *)

GatewayMessage == "gateway role requires at least one network port"

\* C13: a template whose role is gateway and whose port list is empty is
\* rejected with an entry "gateway role requires ..."; a template with role
\* gateway, at least one port and no other violation is accepted.
C13_GatewayNeedsPort ==
    Validated =>
        /\ (vt.Spec.Identity.Role = RoleGateway /\ Len(VtPorts) = 0) =>
              /\ verr = "ValidationError"
              /\ \E k \in 1..Len(errs) : errs[k].fmt = GatewayMessage
        /\ (vt.Spec.Identity.Role = RoleGateway /\ Len(VtPorts) >= 1 /\ Violated = {}) =>
              verr = "nil"

\* a gateway without ports, otherwise valid, was rejected with that one entry
C13_Witness ==
    /\ Validated
    /\ vt.Spec.Identity.Role = RoleGateway
    /\ Len(VtPorts) = 0
    /\ verr = "ValidationError"
    /\ Len(errs) = 1
    /\ errs[1].fmt = GatewayMessage

-----------------------------------------------------------------------------
(* Enum membership *)

\* the enum-checked fields of vt: the value, its closed set, the format of
\* the report, the argument position of the value
EnumFields ==
    {[value |-> vt.Spec.Identity.Role, set |-> validRoles, at |-> 1,
      fmt |-> "identity.role %q is not a recognized role (valid: %s)"],
     [value |-> vt.Spec.Runtime.DeploymentTarget, set |-> validTargets, at |-> 1,
      fmt |-> "runtime.deployment_target %q is not recognized (valid: %s)"],
     [value |-> vt.Spec.Secrets.Provider, set |-> validSecretsProviders, at |-> 1,
      fmt |-> "secrets.provider %q is not recognized (valid: builtin, vault, k8s_secrets)"],
     [value |-> vt.Spec.Network.PortsMergeStrategy, set |-> validMergeStrategies, at |-> 1,
      fmt |-> "network.ports_merge_strategy %q is invalid (valid: replace, append, union)"],
     [value |-> vt.Spec.Secrets.EntriesMergeStrategy, set |-> validMergeStrategies, at |-> 1,
      fmt |-> "secrets.entries_merge_strategy %q is invalid"],
     [value |-> vt.Spec.Observability.Logging.Level, set |-> validLogLevels, at |-> 1,
      fmt |-> "observability.logging.level %q is invalid (valid: debug, info, warn, error)"],
     [value |-> vt.Spec.Observability.Logging.Format, set |-> {"json", "text"}, at |-> 1,
      fmt |-> "observability.logging.format %q is invalid (valid: json, text)"],
     [value |-> vt.Spec.Policy.UpdateChannel, set |-> validUpdateChannels, at |-> 1,
      fmt |-> "policy.update_channel %q is invalid (valid: stable, beta, nightly, pinned)"]}
    \cup {[value |-> VtEntries[k].Type, set |-> validSecretTypes, at |-> 2,
           fmt |-> "secrets.entries[%d].type %q is not recognized"] : k \in 1..Len(VtEntries)}

\* the report names the valid set: in the text of its format, or as the
\* string argument that lists it
CarriesValidSet(e) ==
    \/ e.fmt \in {"secrets.provider %q is not recognized (valid: builtin, vault, k8s_secrets)",
                  "network.ports_merge_strategy %q is invalid (valid: replace, append, union)",
                  "observability.logging.level %q is invalid (valid: debug, info, warn, error)",
                  "observability.logging.format %q is invalid (valid: json, text)",
                  "policy.update_channel %q is invalid (valid: stable, beta, nightly, pinned)"}
    \/ /\ e.fmt = "identity.role %q is not a recognized role (valid: %s)"
       /\ e.args[2] = "gateway, control-plane, worker, observability, db-adjunct"
    \/ /\ e.fmt = "runtime.deployment_target %q is not recognized (valid: %s)"
       /\ e.args[2] = "podman, kubernetes, openshift, droplet, sandbox"

\* C14: every value of role, deployment target, secrets provider, ports and
\* entries merge-strategy tag, log level, log format, update channel and
\* secret-entry type outside its closed set is reported, the report carrying
\* the offending value and the valid set; in a clean template each of these
\* fields, when set, holds a member of its closed set.
C14_EnumMembership ==
    Validated =>
        /\ \A f \in EnumFields :
              Unknown(f.value, f.set) =>
                 \E k \in 1..Len(errs) :
                    /\ errs[k].fmt = f.fmt
                    /\ errs[k].args[f.at] = f.value
                    /\ CarriesValidSet(errs[k])
        /\ verr = "nil" => \A f \in EnumFields : ~Unknown(f.value, f.set)

-----------------------------------------------------------------------------
(* Dispatch on the deployment target *)

Dispatched == pc = "dispatched"

\* the string NewRenderer was called with
DispatchTarget == vt.Spec.Runtime.DeploymentTarget

UnsupportedTarget(tg) ==
    /\ renderer = NIL
    /\ rerr # NIL
    /\ rerr.fmt = "unsupported deployment target: %s"
    /\ rerr.args = <<tg>>

\* C15: NewRenderer returns the Podman renderer for podman, the Kubernetes
\* renderer for kubernetes and for openshift, the Sandbox renderer for
\* sandbox, and for every other string no renderer and an "unsupported
\* deployment target" error naming the value.
C15_NewRenderer ==
    Dispatched =>
        /\ DispatchTarget = "podman" => renderer = PodmanRenderer /\ rerr = NIL
        /\ DispatchTarget \in {"kubernetes", "openshift"} =>
              renderer = KubernetesRenderer /\ rerr = NIL
        /\ DispatchTarget = "sandbox" => renderer = SandboxRenderer /\ rerr = NIL
        /\ DispatchTarget \notin {"podman", "kubernetes", "openshift", "sandbox"} =>
              UnsupportedTarget(DispatchTarget)

\* openshift was dispatched to the Kubernetes renderer
C15_Witness ==
    /\ Dispatched
    /\ DispatchTarget = "openshift"
    /\ renderer = KubernetesRenderer
    /\ rerr = NIL

-----------------------------------------------------------------------------
(* The digest of a template *)

\* the document a template denotes: every map and list by its content
Logical(t) ==
    [t EXCEPT !.Metadata.Labels = MapVal(maps, @).v,
              !.Spec.Identity.Labels = MapVal(maps, @).v,
              !.Spec.Network.Ports = Elems(arrays, @),
              !.Spec.Network.Tailscale.ACLMapping = MapVal(maps, @).v,
              !.Spec.Secrets.Entries = Elems(arrays, @)]

Hashed(which) == IF which = "result" THEN result ELSE vt

\* C19: Hash is deterministic: the digest is 64 lowercase hex characters,
\* two digests of one template are identical, and two templates that are the
\* same logical document (equal field by field, maps equal as maps) have
\* the same digest.
C19_HashDeterministic ==
    pc = "hash" =>
        \A j, k \in 1..Len(hashes) :
           /\ hashes[j].digest.len = 64
           /\ hashes[j].digest.lower
           /\ Logical(Hashed(hashes[j].of)) = Logical(Hashed(hashes[k].of))
                 => hashes[j].digest = hashes[k].digest

\* two templates, each with its own two-key label map of the same content,
\* have been hashed
C19_Witness ==
    /\ pc = "hash"
    /\ Len(hashes) = 2
    /\ hashes[1].of # hashes[2].of
    /\ result.Metadata.Labels # vt.Metadata.Labels
    /\ MapLen(maps, result.Metadata.Labels) = 2
    /\ Logical(result) = Logical(vt)

-----------------------------------------------------------------------------
(* Render as a function of the template *)

-----------------------------------------------------------------------------
(* The render and plan commands *)

Invoked(stage) == \E k \in 1..Len(stages) : stages[k] = stage

IsPrefix(p, q) == Len(p) <= Len(q) /\ \A k \in 1..Len(p) : p[k] = q[k]

\* the stages of the command at hand, in the order they have to run in
StageOrder ==
    <<"load", "Resolve", "Validate", "NewRenderer", "Render",
      IF flags.cmd = "plan" THEN "Plan" ELSE "WriteBundle">>

\* a file the flags name cannot be read or parsed
LoadError == \E k \in 1..Len(FlagFiles) : FlagFiles[k].err # ""

\* Render has returned an error
RenderError == Len(bundles) > 0 /\ bundles[1].err # NIL

\* one of the stages before WriteBundle has failed
StageFailure ==
    \/ Invoked("load") /\ LoadError
    \/ verr = "ValidationError"
    \/ rerr # NIL
    \/ RenderError

\* C16: the deployment target of a template Validate accepts selects a
\* renderer: once Validate has returned nil and NewRenderer has been called
\* with the template's target, there is a renderer and no unsupported-target
\* error.
C16_AcceptedTargetSelectsRenderer ==
    (verr = "nil" /\ Invoked("NewRenderer")) => (renderer # NIL /\ rerr = NIL)

\* C17: the stages run in the order load, Resolve, Validate, NewRenderer,
\* Render, WriteBundle (plan: Plan in its place); Render is only invoked on the
\* template Validate returned nil for; WriteBundle is only invoked once every
\* earlier stage has succeeded; and after a failure of one of those stages no
\* later stage runs, no bundle file is written, and the command is returning
\* (the error just handed back by Validate) or has returned, with exit code 1.
C17_StageOrder ==
    /\ IsPrefix(stages, StageOrder)
    /\ Invoked("Render") =>
          /\ verr = "nil"
          /\ vt = result
          /\ bundles[1].bundle # NIL => bundles[1].bundle.ResolvedTemplate = vt
    /\ Invoked("WriteBundle") =>
          /\ ~LoadError
          /\ pc \notin {"call", "loop"}
          /\ verr = "nil"
          /\ renderer # NIL /\ rerr = NIL
          /\ bundles[1].bundle # NIL /\ bundles[1].err = NIL
    /\ ~Invoked("WriteBundle") => DOMAIN disk = {}
    /\ StageFailure =>
          /\ DOMAIN disk = {}
          /\ pc = "exited" \/ (pc = "validated" /\ verr = "ValidationError")
          /\ pc = "exited" => exit = 1
          /\ LoadError => stages = <<"load">>
          /\ verr = "ValidationError" => stages = <<"load", "Resolve", "Validate">>
          /\ rerr # NIL => stages = <<"load", "Resolve", "Validate", "NewRenderer">>
          /\ RenderError =>
                stages = <<"load", "Resolve", "Validate", "NewRenderer", "Render">>

\* a render run over a base and three layers has gone through all six stages
\* and written the artifacts and the manifest
C17_Witness ==
    /\ flags.cmd = "render"
    /\ Len(layers) = 3
    /\ pc = "exited"
    /\ exit = 0
    /\ stages = <<"load", "Resolve", "Validate", "NewRenderer", "Render", "WriteBundle">>
    /\ DOMAIN disk = DOMAIN bundles[1].bundle.Files \cup {"bundle-manifest.json"}

-----------------------------------------------------------------------------
(* Resolve calls running side by side *)

\* the other of the two calls
Other(c) == 3 - c

\* Resolve(b, layers...) run on its own from the heap the calls started with
RECURSIVE mergeFrom(_, _)
mergeFrom(st, k) ==
    IF k > Len(layers) THEN st
    ELSE mergeFrom(mergeMetadataLabels(mergeSpec(st, layers[k].Spec), layers[k]), k + 1)

Alone(b) ==
    LET cp == deepCopy(heap0.maps, heap0.arrays, b)
        st == mergeFrom([res |-> [cp.res EXCEPT !.APIVersion = APIVersion,
                                                !.Kind = KindEncodingTemplate],
                         maps |-> cp.maps, arrays |-> cp.arrays], 1)
    IN Deep(st.maps, st.arrays, st.res)

\* what call c can reach: its base, the layers, and its result
Reach(ms, as, c) ==
    <<Deep(ms, as, calls[c].base), [k \in 1..Len(layers) |-> Deep(ms, as, layers[k])],
      Deep(ms, as, calls[c].result)>>

\* C18: two Resolve calls with different bases and the same layers do not
\* interfere: no call is ended by the runtime, a call that has returned holds
\* the result it returns when run alone, and no step of a call changes what
\* the other call's base, layers or result hold.
C18_NoInterference ==
    /\ [](\A c \in 1..Len(calls) :
             /\ calls[c].pc # "fatal"
             /\ calls[c].pc = "done" => Now(calls[c].result) = Alone(calls[c].base))
    /\ [][\A c \in 1..Len(calls) :
             calls'[c] # calls[c] =>
                Reach(maps', arrays', Other(c)) = Reach(maps, arrays, Other(c))]_vars

-----------------------------------------------------------------------------
(* Plan and WriteBundle *)

TheBundle == bundles[1].bundle

ManifestPath == "bundle-manifest.json"

\* the call has written the manifest
ManifestWritten == ManifestPath \in DOMAIN wb.wrote

\* seq holds exactly the elements of S, in ascending order, each once
IsSortedListOf(seq, S) ==
    /\ {seq[k] : k \in 1..Len(seq)} = S
    /\ \A j, k \in 1..Len(seq) : j < k => PathRank(seq[j]) < PathRank(seq[k])

\* C21: Plan(bundle).Files is the key set of bundle.Files in ascending order
\* without duplicates; hash, instance, role, target and file list of Plan
\* are those the manifest written by WriteBundle holds; and the step that
\* runs Plan changes neither the disk nor the bundle.
C21_PlanParity ==
    /\ [](plan # NIL =>
            /\ IsSortedListOf(plan.Files, DOMAIN TheBundle.Files)
            /\ ManifestWritten =>
                  LET m == disk[ManifestPath].content
                  IN /\ m.SourceHash = plan.SourceHash
                     /\ m.Instance = plan.Instance
                     /\ m.Role = plan.Role
                     /\ m.Target = plan.Target
                     /\ m.Files = plan.Files)
    /\ [][plan' # plan =>
            /\ disk' = disk /\ wb' = wb /\ bundles' = bundles
            /\ maps' = maps /\ arrays' = arrays]_vars

\* Plan and WriteBundle have both run to the end on the Kubernetes file set,
\* over a directory that held an old manifest
C21_Witness ==
    /\ pc = "exited"
    /\ plan # NIL
    /\ ManifestWritten
    /\ wb.err = NIL
    /\ DOMAIN TheBundle.Files = RenderFiles(KubernetesRenderer)
    /\ disk["install.sh"].perm = "0o600"
    /\ plan.Files = disk[ManifestPath].content.Files
    /\ Len(plan.Files) = 7

\* the error names path: it carries it as an argument, or wraps the file
\* system's error for it
NamesPath(e, rel) ==
    IF e.fmt \in {"create directory for %s: %w", "write %s: %w"}
    THEN e.args[1] = rel
    ELSE e.args[1].path = outDir(TheBundle.ResolvedTemplate) \o <<rel>>

\* C22: the manifest is written only after every artifact: when the call has
\* written bundle-manifest.json, every file the manifest lists was written
\* by the call with the bundle's content; once a directory creation or a
\* write has failed, the call has returned an error naming the path, writes
\* nothing more (no retry, no manifest), and what it wrote before stays.
C22_ManifestLast ==
    /\ [](ManifestWritten =>
            LET m == disk[ManifestPath].content
            IN /\ m = manifestOf(TheBundle, 1)
               /\ \A k \in 1..Len(m.Files) :
                     /\ m.Files[k] \in DOMAIN wb.wrote
                     /\ disk[m.Files[k]].content = TheBundle.Files[m.Files[k]])
    /\ [](wb.err # NIL =>
            /\ pc = "exited"
            /\ ~ManifestWritten
            /\ \E rel \in DOMAIN TheBundle.Files \cup {"", ManifestPath} :
                  rel \notin DOMAIN wb.wrote /\ NamesPath(wb.err, rel)
            /\ \A path \in DOMAIN wb.wrote :
                  disk[path].content = TheBundle.Files[path])
    /\ [][wb.err # NIL => disk' = disk /\ wb' = wb]_vars
    /\ [][(~ManifestWritten /\ ManifestPath \in DOMAIN wb'.wrote) =>
             DOMAIN TheBundle.Files \subseteq DOMAIN wb.wrote]_vars

\* a write failed after two artifacts of the Podman bundle had been written
C22_Witness ==
    /\ DOMAIN TheBundle.Files = RenderFiles(PodmanRenderer)
    /\ wb.err # NIL
    /\ wb.err.fmt = "write %s: %w"
    /\ Cardinality(DOMAIN wb.wrote) = 2
    /\ ~ManifestWritten
    /\ pc = "exited"

\* C23: WriteBundle writes an artifact with mode 0755 exactly when its
\* relative path has the extension .sh, with 0644 otherwise, and the
\* manifest with 0644.
C23_FileModes ==
    \A path \in DOMAIN wb.wrote :
       /\ wb.wrote[path] = (IF path # ManifestPath /\ Ext(path) = ".sh"
                            THEN "0o755" ELSE "0o644")
       /\ path \notin DOMAIN heap0.disk => disk[path].perm = wb.wrote[path]

\* scripts and other files, among them run.SH, a file below hooks.sh and a
\* script in a sub-directory, have been written
C23_Witness ==
    /\ {"README", "run.SH", "hooks.sh/config", "bin/tool.sh"} \subseteq DOMAIN wb.wrote
    /\ ManifestWritten
    /\ wb.wrote["bin/tool.sh"] = "0o755"
    /\ wb.wrote["run.SH"] = "0o644"

\* the Tailscale blocks of base and the merged layers, in merge order
TailscaleBlocks ==
    LET ms == Merged(Len(layers))
        RECURSIVE blocks(_)
        blocks(k) ==
            IF k = 0 THEN <<>>
            ELSE IF ms[k].Spec.Network.Tailscale.set
                 THEN Append(blocks(k - 1), ms[k].Spec.Network.Tailscale)
                 ELSE blocks(k - 1)
    IN blocks(Len(ms))

\* C25: over the Tailscale blocks of base and layers, enabled is true iff
\* some block enables it and provider is the last non-empty provider: a
\* block that sets only tags or ACL mappings changes neither.
C25_TailscaleScalars ==
    (Returned /\ rerr = NIL /\ Len(TailscaleBlocks) > 0) =>
        LET bs == TailscaleBlocks
            ts == result.Spec.Network.Tailscale
        IN /\ ts.set
           /\ ts.Enabled = (\E k \in 1..Len(bs) : bs[k].Enabled)
           /\ ts.Provider = LastNonEmpty([k \in 1..Len(bs) |-> bs[k].Provider])

\* C26: a layer whose port list (secret-entry list) is empty leaves the
\* accumulated list as it was under every strategy, replace included, and
\* its strategy tag, if non-empty, is recorded in the result.
C26_EmptyListKeeps ==
    Stepped =>
        /\ StepPorts = <<>> => ResultPorts = step.accPorts
        /\ StepEntries = <<>> => ResultEntries = step.accEntries
        /\ StepLayer.Spec.Network.PortsMergeStrategy # "" =>
              result.Spec.Network.PortsMergeStrategy =
                  StepLayer.Spec.Network.PortsMergeStrategy
        /\ StepLayer.Spec.Secrets.EntriesMergeStrategy # "" =>
              result.Spec.Secrets.EntriesMergeStrategy =
                  StepLayer.Spec.Secrets.EntriesMergeStrategy

\* a layer with an empty port list and the tag replace was merged onto a
\* list of two ports, which stayed, and the tag was recorded
C26_Witness ==
    /\ Stepped
    /\ StepPorts = <<>>
    /\ StepLayer.Spec.Network.PortsMergeStrategy = MergeStrategyReplace
    /\ step.portsStrategy = MergeStrategyReplace
    /\ Len(step.accPorts) = 2
    /\ ResultPorts = step.accPorts
    /\ result.Spec.Network.PortsMergeStrategy = MergeStrategyReplace
    /\ base.Spec.Network.PortsMergeStrategy = MergeStrategyUnion

-----------------------------------------------------------------------------
(* Resolve as a function of the heap, and the calls of a fold: all layers   *)
(* at once, a prefix of them, the rest on the prefix's result, and the      *)
(* result once more without layers                                          *)

\* the range loop of Resolve over ls
RECURSIVE mergeLayers(_, _)
mergeLayers(st, ls) ==
    IF ls = <<>> THEN st
    ELSE IF Head(ls) = NIL THEN mergeLayers(st, Tail(ls))
    ELSE mergeLayers(mergeMetadataLabels(mergeSpec(st, Head(ls).Spec), Head(ls)),
                     Tail(ls))

\* Resolve(b, ls...) for a non-nil b: the heap afterwards and the result
ResolveCall(ms, as, b, ls) ==
    LET c == deepCopy(ms, as, b)
    IN mergeLayers([res |-> [c.res EXCEPT !.APIVersion = APIVersion,
                                          !.Kind = KindEncodingTemplate],
                    maps |-> c.maps,
                    arrays |-> c.arrays], ls)

FoldBases ==
    {[ZeroDoc EXCEPT !.Metadata.Name = "base", !.Kind = KindRoleOverlay],
     [TailscaleDoc(TRUE, "tailscale", <<"tag:base">>, [k \in {"admin"} |-> "tag:root"])
         EXCEPT !.Metadata.Name = "base"],
     [PortsDoc(<<BasePorts[1]>>, MergeStrategyUnion)
         EXCEPT !.Metadata.Name = "base",
                !.Metadata.Labels = Field([k \in {"team"} |-> "core"])]}

\* layers with a Tailscale block (one with "acl_mapping: {}"), a scalar, a
\* label, and lists with and without a strategy tag
FoldLayers ==
    {TailscaleDoc(TRUE, "", <<>>, [k \in {"admin"} |-> "tag:ops"]),
     TailscaleDoc(FALSE, "headscale", <<"tag:gw">>, [k \in {"dev"} |-> "tag:dev"]),
     [TailscaleDoc(TRUE, "", <<>>, EmptyMap)
         EXCEPT !.Spec.Network.Tailscale.ACLMapping = Field(EmptyMap)],
     Set(ZeroDoc, "identity.region", "a"),
     [ZeroDoc EXCEPT !.Metadata.Labels = Field([k \in {"team"} |-> "edge"])],
     PortsDoc(<<LayerPorts[1]>>, MergeStrategyAppend),
     PortsDoc(<<LayerPorts[2], LayerPorts[3]>>, ""),
     PortsDoc(<<>>, MergeStrategyUnion),
     EntriesDoc(<<LayerEntries[1]>>, MergeStrategyAppend),
     EntriesDoc(<<LayerEntries[2]>>, "")}

InitFold ==
    /\ \E b \in FoldBases : \E n \in 0..MaxLayers : \E ls \in [1..n -> FoldLayers] :
          CallState(b, ls)
    /\ ValidateIdle
    /\ \E k \in 0..Len(layers) :
          fold = [k |-> k, whole |-> NIL, prefix |-> NIL, split |-> NIL, again |-> NIL]

\* Resolve(base, L1..Ln)
FoldWhole ==
    /\ fold # NIL
    /\ fold.whole = NIL
    /\ LET r == ResolveCall(maps, arrays, base, layers)
       IN /\ fold' = [fold EXCEPT !.whole = r.res]
          /\ maps' = r.maps
          /\ arrays' = r.arrays
    /\ UNCHANGED <<base, layers, result, i, pc, step, heap0>>
    /\ UNCHANGED validateVars
    /\ UNCHANGED commandVars
    /\ UNCHANGED serviceVars

\* Resolve(base, L1..Lk)
FoldPrefix ==
    /\ fold # NIL
    /\ fold.prefix = NIL
    /\ LET r == ResolveCall(maps, arrays, base, SubSeq(layers, 1, fold.k))
       IN /\ fold' = [fold EXCEPT !.prefix = r.res]
          /\ maps' = r.maps
          /\ arrays' = r.arrays
    /\ UNCHANGED <<base, layers, result, i, pc, step, heap0>>
    /\ UNCHANGED validateVars
    /\ UNCHANGED commandVars
    /\ UNCHANGED serviceVars

\* Resolve(prefix, Lk+1..Ln) on the template the prefix call returned
FoldRest ==
    /\ fold # NIL
    /\ fold.prefix # NIL
    /\ fold.split = NIL
    /\ LET r == ResolveCall(maps, arrays, fold.prefix,
                            SubSeq(layers, fold.k + 1, Len(layers)))
       IN /\ fold' = [fold EXCEPT !.split = r.res]
          /\ maps' = r.maps
          /\ arrays' = r.arrays
    /\ UNCHANGED <<base, layers, result, i, pc, step, heap0>>
    /\ UNCHANGED validateVars
    /\ UNCHANGED commandVars
    /\ UNCHANGED serviceVars

\* Resolve(whole) with no layers
FoldAgain ==
    /\ fold # NIL
    /\ fold.whole # NIL
    /\ fold.again = NIL
    /\ LET r == ResolveCall(maps, arrays, fold.whole, <<>>)
       IN /\ fold' = [fold EXCEPT !.again = r.res]
          /\ maps' = r.maps
          /\ arrays' = r.arrays
    /\ UNCHANGED <<base, layers, result, i, pc, step, heap0>>
    /\ UNCHANGED validateVars
    /\ UNCHANGED commandVars
    /\ UNCHANGED serviceVars

NextFold == FoldWhole \/ FoldPrefix \/ FoldRest \/ FoldAgain

SpecFold == InitFold /\ [][NextFold]_vars

\* C28: the result of resolving the rest of the layers on the result of a
\* prefix equals the result of resolving all layers at once, and resolving
\* a resolved template without layers returns an equal one (equal as
\* documents: every field, map and list by its content).
C28_LeftFold ==
    fold # NIL =>
        /\ (fold.whole # NIL /\ fold.split # NIL) =>
              Logical(fold.split) = Logical(fold.whole)
        /\ fold.again # NIL => Logical(fold.again) = Logical(fold.whole)

\* two layers were resolved at once and one after the other; the second was
\* merged under the tag the first recorded
C28_Witness ==
    /\ fold # NIL
    /\ fold.k = 1
    /\ Len(layers) = 2
    /\ fold.whole # NIL /\ fold.split # NIL /\ fold.again # NIL
    /\ layers[1].Spec.Network.PortsMergeStrategy = MergeStrategyAppend
    /\ layers[2].Spec.Network.PortsMergeStrategy = ""
    /\ layers[2].Spec.Network.Ports.len > 0
    /\ Len(Elems(arrays, fold.split.Spec.Network.Ports)) > layers[2].Spec.Network.Ports.len

-----------------------------------------------------------------------------
(* Resolve followed by Validate on its result, with layers whose strategy   *)
(* tags may be unrecognized                                                 *)

StrategyTags == Tags \cup {"merge"}

StrategyBases ==
    {[ValidDoc EXCEPT !.Spec.Network.PortsMergeStrategy = tag,
                      !.Spec.Secrets.EntriesMergeStrategy = tag] :
        tag \in {"", MergeStrategyUnion}}

StrategyLayers ==
    {PortsDoc(l, tag) :
        l \in {<<>>, <<PortSpec("admin", 9000, 0, "tcp")>>,
               <<PortSpec("metrics", 9090, 0, "tcp"), PortSpec("admin", 9000, 0, "tcp")>>},
        tag \in StrategyTags}
    \cup {EntriesDoc(l, tag) :
            l \in {<<>>, <<SecretEntry("db", "db_cred", "vault://db")>>},
            tag \in StrategyTags}

InitStrategy == Calls(StrategyBases, StrategyLayers)

NextStrategy ==
    \/ ResolveBegin
    \/ MergeLayer
    \/ ResolveReturn
    \/ ValidateResolved
    \/ ValidateCall

SpecStrategy == InitStrategy /\ [][NextStrategy]_vars

\* the accumulated result when layer k is merged: Resolve of the layers
\* before it
ResultBefore(k) ==
    ResolveCall(heap0.maps, heap0.arrays, base, SubSeq(layers, 1, k - 1)).res

\* the strategies under which the lists of layer k are merged
PortsStrategyAt(k) ==
    portsStrategy(ResultBefore(k).Spec.Network, layers[k].Spec.Network)
EntriesStrategyAt(k) ==
    entriesStrategy(ResultBefore(k).Spec.Secrets, layers[k].Spec.Secrets)

Accepted == pc = "validated" /\ verr = "nil"

\* C27: when Validate accepts the template Resolve returned, every strategy
\* under which a layer's port list or entry list was merged is one of
\* replace, append, union.
C27_InvalidTagDetected ==
    Accepted =>
        \A k \in 1..Len(layers) :
           /\ nonEmptyList(layers[k].Spec.Network.Ports) =>
                 isValidMergeStrategy(PortsStrategyAt(k))
           /\ nonEmptyList(layers[k].Spec.Secrets.Entries) =>
                 isValidMergeStrategy(EntriesStrategyAt(k))

-----------------------------------------------------------------------------
(* The gateway registry on the in-memory store.  Every store method runs    *)
(* under the store's mutex and is one step; a registry method that calls    *)
(* the store twice is two steps, and requests are served side by side.      *)

StatusOnline == "online"
StatusOffline == "offline"
StatusDegraded == "degraded"
StatusUnknown == "unknown"

\* a nil *time.Time, a nil *int, a nil *string
NoTime == -1
NoInt == -1
NoString == "<nil>"

\* deepCopy of a Gateway: every field goes through its JSON encoding; a nil
\* last_seen_at or ttl_seconds is left out and comes back nil
deepCopyGateway(gw) ==
    [ID |-> gw.ID, Name |-> gw.Name, Description |-> gw.Description,
     Status |-> gw.Status, EnrolledAt |-> gw.EnrolledAt,
     LastSeenAt |-> IF gw.LastSeenAt = NoTime THEN NoTime ELSE gw.LastSeenAt,
     TTLSeconds |-> IF gw.TTLSeconds = NoInt THEN NoInt ELSE gw.TTLSeconds]

\* the store with the record of id set to gw
Put(s, id, gw) == [k \in DOMAIN s \cup {id} |-> IF k = id THEN gw ELSE s[k]]

\* SQLiteStore.ListGateways: a copy of every stored gateway
ListGateways(s) == {deepCopyGateway(s[id]) : id \in DOMAIN s}

\* uuid.New(): an id no gateway and no request in flight carries
NewID == 1 + Cardinality(DOMAIN store \cup {r.id : r \in reqs})

\* time.Now() moves on
Tick ==
    /\ now < MaxTime
    /\ now' = now + 1
    /\ UNCHANGED <<store, reqs, fan, fold>>
    /\ UNCHANGED resolveVars
    /\ UNCHANGED validateVars
    /\ UNCHANGED commandVars

\* Registry.Create and SQLiteStore.CreateGateway
RegistryCreate ==
    /\ NewID <= MaxGateways
    /\ \E name \in {"gw-a"}, ttl \in {NoInt, 1} :
          store' = Put(store, NewID,
                       deepCopyGateway([ID |-> NewID, Name |-> name, Description |-> "",
                                        Status |-> StatusUnknown, EnrolledAt |-> now,
                                        LastSeenAt |-> NoTime, TTLSeconds |-> ttl]))
    /\ UNCHANGED <<now, reqs, fan, fold>>
    /\ UNCHANGED resolveVars
    /\ UNCHANGED validateVars
    /\ UNCHANGED commandVars

\* Registry.Delete and SQLiteStore.DeleteGateway, asked for by a client
RegistryDelete ==
    /\ \E id \in DOMAIN store :
          store' = [k \in DOMAIN store \ {id} |-> store[k]]
    /\ UNCHANGED <<now, reqs, fan, fold>>
    /\ UNCHANGED resolveVars
    /\ UNCHANGED validateVars
    /\ UNCHANGED commandVars

\* the payloads of an update: one field each
UpdateRequests ==
    {[Name |-> "gw-b", Description |-> NoString, TTLSeconds |-> NoInt],
     [Name |-> NoString, Description |-> "moved", TTLSeconds |-> NoInt]}

\* Registry.Update up to "gw, err := r.store.GetGateway(ctx, id)"
UpdateRead ==
    /\ Cardinality(reqs) < MaxReqs
    /\ \E id \in DOMAIN store : \E req \in UpdateRequests :
          reqs' = reqs \cup {[op |-> "Update", id |-> id, req |-> req,
                              gw |-> deepCopyGateway(store[id])]}
    /\ UNCHANGED <<store, now, fan, fold>>
    /\ UNCHANGED resolveVars
    /\ UNCHANGED validateVars
    /\ UNCHANGED commandVars

\* "if req.Name != nil { gw.Name = *req.Name }" and the like
applyUpdate(gw, req) ==
    [gw EXCEPT !.Name = IF req.Name # NoString THEN req.Name ELSE @,
               !.Description = IF req.Description # NoString THEN req.Description ELSE @,
               !.TTLSeconds = IF req.TTLSeconds # NoInt THEN req.TTLSeconds ELSE @]

\* SQLiteStore.UpdateGateway: the whole record is replaced by a copy of gw
UpdateGateway(s, gw) ==
    IF gw.ID \notin DOMAIN s THEN s
    ELSE Put(s, gw.ID, deepCopyGateway(gw))

\* the rest of Registry.Update: the fields are applied to the copy read and
\* the copy is written back; the request is over
UpdateWrite ==
    /\ \E r \in reqs :
          /\ r.op = "Update"
          /\ store' = UpdateGateway(store, applyUpdate(r.gw, r.req))
          /\ reqs' = reqs \ {r}
    /\ UNCHANGED <<now, fan, fold>>
    /\ UNCHANGED resolveVars
    /\ UNCHANGED validateVars
    /\ UNCHANGED commandVars

\* Handler.HealthCheck up to the probe: Registry.Get found the gateway
HealthCheckGet ==
    /\ Cardinality(reqs) < MaxReqs
    /\ \E id \in DOMAIN store :
          reqs' = reqs \cup {[op |-> "HealthCheck", id |-> id,
                              gw |-> deepCopyGateway(store[id])]}
    /\ UNCHANGED <<store, now, fan, fold>>
    /\ UNCHANGED resolveVars
    /\ UNCHANGED validateVars
    /\ UNCHANGED commandVars

\* SQLiteStore.UpdateGatewayStatus
UpdateGatewayStatus(s, id, status, lastSeen) ==
    IF id \notin DOMAIN s THEN s
    ELSE Put(s, id, [s[id] EXCEPT !.Status = status, !.LastSeenAt = lastSeen])

\* the probe answered (or failed) and Registry.UpdateStatus records the
\* status with time.Now(); the request is over
HealthCheckRecord ==
    /\ \E r \in reqs :
          /\ r.op = "HealthCheck"
          /\ \E status \in {StatusOnline, StatusOffline} :
                store' = UpdateGatewayStatus(store, r.id, status, now)
          /\ reqs' = reqs \ {r}
    /\ UNCHANGED <<now, fan, fold>>
    /\ UNCHANGED resolveVars
    /\ UNCHANGED validateVars
    /\ UNCHANGED commandVars

InitRegistry ==
    /\ store = <<>>
    /\ now = 0
    /\ reqs = {}
    /\ fan = NIL
    /\ FoldIdle
    /\ CallState(ZeroDoc, <<>>)
    /\ vt = ZeroTemplate /\ errs = <<>> /\ verr = "pending"
    /\ CommandFresh /\ flags = NIL /\ required = {}

NextRegistry ==
    \/ Tick
    \/ RegistryCreate
    \/ RegistryDelete
    \/ UpdateRead
    \/ UpdateWrite
    \/ HealthCheckGet
    \/ HealthCheckRecord

SpecRegistry == InitRegistry /\ [][NextRegistry]_vars

\* the clock runs, and a request that was accepted is served to its end
SpecRegistryFair ==
    /\ SpecRegistry
    /\ WF_vars(Tick)
    /\ WF_vars(UpdateWrite)
    /\ WF_vars(HealthCheckRecord)

\* the time a gateway was last heard of
SeenAt(gw) == IF gw.LastSeenAt = NoTime THEN gw.EnrolledAt ELSE gw.LastSeenAt

\* the TTL of gateway id has elapsed without it being seen
TTLElapsed(id) ==
    /\ id \in DOMAIN store
    /\ store[id].TTLSeconds # NoInt
    /\ now - SeenAt(store[id]) >= store[id].TTLSeconds

\* List reports gateway id as a live gateway
ListedLive(id) ==
    \E gw \in ListGateways(store) : gw.ID = id /\ gw.Status # StatusOffline

\* C24: once the TTL of a gateway has elapsed without it being seen, the
\* registry eventually no longer lists it as a live gateway.
C24_TTLExpires ==
    \A id \in 1..(MaxGateways + 1) : TTLElapsed(id) ~> ~ListedLive(id)

\* C29: the write-back of an Update changes no field of the stored record
\* but those the update was asked to change: what a health check or another
\* update recorded in the meantime is still there.
C29_NoLostWrite ==
    [][\A r \in reqs :
          (r.op = "Update" /\ reqs' = reqs \ {r} /\ r.id \in DOMAIN store
           /\ r.id \in DOMAIN store') =>
             store'[r.id] = applyUpdate(store[r.id], r.req)]_vars

-----------------------------------------------------------------------------
(* fanOutToGateways: the caller's loop and one goroutine per gateway, each  *)
(* statement between two synchronisation points a step                      *)

\* the gateways a prompt can be sent to; two of them share a name
FanGateways ==
    {[ID |-> 1, Name |-> "gw-a"], [ID |-> 2, Name |-> "gw-b"], [ID |-> 3, Name |-> "gw-a"]}

\* the lists resolveGateways hands over: up to MaxFan different gateways
FanInputs ==
    {gs \in UNION {[1..n -> FanGateways] : n \in 0..MaxFan} :
        \A j, k \in 1..Len(gs) : j # k => gs[j].ID # gs[k].ID}

InitFanOut ==
    /\ \E gs \in FanInputs :
          fan = [gateways |-> gs, i |-> 1, wg |-> 0, mu |-> 0, results |-> <<>>,
                 g |-> <<>>, returned |-> NIL]
    /\ store = <<>> /\ now = 0 /\ reqs = {}
    /\ FoldIdle
    /\ CallState(ZeroDoc, <<>>)
    /\ vt = ZeroTemplate /\ errs = <<>> /\ verr = "pending"
    /\ NothingRun /\ flags = NIL /\ required = {}

\* "gw := gateways[i]; wg.Add(1); go func() {...}()"
FanSpawn ==
    /\ fan.i <= Len(fan.gateways)
    /\ fan' = [fan EXCEPT !.wg = @ + 1,
                          !.g = Append(@, [pc |-> "send", gw |-> fan.gateways[fan.i],
                                           result |-> NIL]),
                          !.i = @ + 1]
    /\ UNCHANGED <<store, now, reqs, fold>>
    /\ UNCHANGED resolveVars
    /\ UNCHANGED validateVars
    /\ UNCHANGED commandVars

\* "resp, err := client.SendPrompt(ctx, prompt)" and the result built from it
FanSendPrompt ==
    /\ \E k \in 1..Len(fan.g) :
          /\ fan.g[k].pc = "send"
          /\ \E failed \in BOOLEAN :
                fan' = [fan EXCEPT
                           !.g[k].result =
                               [GatewayID |-> fan.g[k].gw.ID,
                                GatewayName |-> fan.g[k].gw.Name,
                                Response |-> IF failed THEN "" ELSE "pong",
                                Error |-> IF failed THEN "connection refused" ELSE ""],
                           !.g[k].pc = "lock"]
    /\ UNCHANGED <<store, now, reqs, fold>>
    /\ UNCHANGED resolveVars
    /\ UNCHANGED validateVars
    /\ UNCHANGED commandVars

\* "mu.Lock()"
FanLock ==
    /\ fan.mu = 0
    /\ \E k \in 1..Len(fan.g) :
          /\ fan.g[k].pc = "lock"
          /\ fan' = [fan EXCEPT !.mu = k, !.g[k].pc = "append"]
    /\ UNCHANGED <<store, now, reqs, fold>>
    /\ UNCHANGED resolveVars
    /\ UNCHANGED validateVars
    /\ UNCHANGED commandVars

\* "results = append(results, result)"
FanAppend ==
    /\ \E k \in 1..Len(fan.g) :
          /\ fan.g[k].pc = "append"
          /\ fan' = [fan EXCEPT !.results = Append(@, fan.g[k].result),
                                !.g[k].pc = "unlock"]
    /\ UNCHANGED <<store, now, reqs, fold>>
    /\ UNCHANGED resolveVars
    /\ UNCHANGED validateVars
    /\ UNCHANGED commandVars

\* "mu.Unlock()"
FanUnlock ==
    /\ \E k \in 1..Len(fan.g) :
          /\ fan.g[k].pc = "unlock"
          /\ fan' = [fan EXCEPT !.mu = 0, !.g[k].pc = "return"]
    /\ UNCHANGED <<store, now, reqs, fold>>
    /\ UNCHANGED resolveVars
    /\ UNCHANGED validateVars
    /\ UNCHANGED commandVars

\* the goroutine returns: "defer wg.Done()"
FanDone ==
    /\ \E k \in 1..Len(fan.g) :
          /\ fan.g[k].pc = "return"
          /\ fan' = [fan EXCEPT !.wg = @ - 1, !.g[k].pc = "finished"]
    /\ UNCHANGED <<store, now, reqs, fold>>
    /\ UNCHANGED resolveVars
    /\ UNCHANGED validateVars
    /\ UNCHANGED commandVars

\* variant: Wait does not block
wgWaitNoBlock(f) == TRUE

\* wg.Wait() returns when the counter is zero
wgWait(f) == f.wg = 0

\* "wg.Wait(); return results"
FanReturn ==
    /\ fan.i > Len(fan.gateways)
    /\ fan.returned = NIL
    /\ wgWait(fan)
    /\ fan' = [fan EXCEPT !.returned = [results |-> fan.results]]
    /\ UNCHANGED <<store, now, reqs, fold>>
    /\ UNCHANGED resolveVars
    /\ UNCHANGED validateVars
    /\ UNCHANGED commandVars

NextFanOut ==
    \/ FanSpawn
    \/ FanSendPrompt
    \/ FanLock
    \/ FanAppend
    \/ FanUnlock
    \/ FanDone
    \/ FanReturn

SpecFanOut == InitFanOut /\ [][NextFanOut]_vars

FanReturned == fan # NIL /\ fan.returned # NIL

\* the one-to-one assignments of n results to n gateways
Orders(n) == {p \in [1..n -> 1..n] : \A j, k \in 1..n : j # k => p[j] # p[k]}

\* C30: when fanOutToGateways has returned, the goroutine of every input
\* gateway has finished, and the slice returned holds exactly one result per
\* input gateway, in some order, with that gateway's ID and name and the
\* response or error of its own prompt; nothing is appended afterwards.
C30_FanOutComplete ==
    FanReturned =>
        LET n == Len(fan.gateways)
            rs == fan.returned.results
        IN /\ Len(fan.g) = n
           /\ \A k \in 1..n : fan.g[k].pc = "finished"
           /\ Len(rs) = n
           /\ \E p \in Orders(n) :
                 \A k \in 1..n :
                    /\ rs[p[k]].GatewayID = fan.gateways[k].ID
                    /\ rs[p[k]].GatewayName = fan.gateways[k].Name
                    /\ rs[p[k]] = fan.g[k].result
                    /\ (rs[p[k]].Error = "") # (rs[p[k]].Response = "")
           /\ fan.results = rs

\* a call for two gateways has returned: the second gateway's result comes
\* first, the first gateway's prompt failed and the other's did not
C30_Witness ==
    /\ FanReturned
    /\ Len(fan.gateways) = 2
    /\ fan.returned.results[1].GatewayID = fan.gateways[2].ID
    /\ fan.returned.results[2].GatewayID = fan.gateways[1].ID
    /\ fan.returned.results[2].Error # ""
    /\ fan.returned.results[1].Response = "pong"

=============================================================================
